---- MODULE Spec2Model ----
(***************************************************************************)
(* A model of the DTSX package parser (src/dtsx_parser/parser.py) and of   *)
(* the diagram generator (src/dtsx_parser/diagram_generator.py).           *)
(*                                                                         *)
(* Python values are modelled as tagged tuples so that values of different *)
(* Python types can be compared: None is <<>>, a str s is <<"str", s>>,    *)
(* an int n is <<"int", n>>, a bool b is <<"bool", b>>.  Fields that only  *)
(* ever hold a str hold the bare string.  Substring tests,                 *)
(* suffix tests and lower-casing are computed character by character.      *)
(* An XML element is a record [tag, attrib, text, children] where attrib   *)
(* is a function from attribute keys (as ElementTree spells them) to       *)
(* attribute values.                                                       *)
(***************************************************************************)
EXTENDS Integers, Sequences, FiniteSets, TLC

VARIABLES
    pc,          \* "new", "returned" (a method returned), "raised", "parsed", "rendered",
                 \* "resolved", "drawn", "resolved again", "resolved after drawing",
                 \* "listed", "routed", "all drawn", "built" (a DiagramGenerator was
                 \* built on a package), "generated" (it was called)
    op,          \* the operation that ran last
    arg,         \* the argument of a method-level call (an element, a list pair)
    ret,         \* the value a method-level call returned
    exc,         \* the exception that left the operation, "none" if it returned
    stages,      \* the ControlFlowStage list being built / linked
    constraints, \* the PrecedenceConstraint list
    root,        \* self.root: the document's root element, None before it is read
    package,     \* self.package: the DtsxPackage of the last parse(), None before
    data_flow_task, \* the DataFlowTask a caller hands to the generator, None before
    held,        \* the first resolution of a reference on data_flow_task, None before
    first_outputs \* the package a DiagramGenerator was built on and the first
                 \* output of each of its operations, by operation and task number

vars == <<pc, op, arg, ret, exc, stages, constraints, root, package, data_flow_task, held,
          first_outputs>>

-----------------------------------------------------------------------------
(* Python values *)

None == <<>>
PyStr(s) == <<"str", s>>
PyInt(n) == <<"int", n>>

PyBool(b) == <<"bool", b>>

IsStr(v) == v # None /\ v[1] = "str"
IsInt(v) == v # None /\ v[1] = "int"

\* bool(v) for None, str, bool and int
Truthy(v) ==
    IF v = None THEN FALSE
    ELSE IF v[1] = "str" THEN v[2] # ""
    ELSE IF v[1] = "bool" THEN v[2]
    ELSE v[2] # 0

-----------------------------------------------------------------------------
(* str operations *)

\* sub in s
Contains(sub, s) ==
    \E i \in 0..(Len(s) - Len(sub)) : SubSeq(s, i + 1, i + Len(sub)) = sub

\* s.startswith(prefix)
StartsWith(s, prefix) == Len(prefix) <= Len(s) /\ SubSeq(s, 1, Len(prefix)) = prefix

\* s.endswith(suf)
EndsWith(s, suf) ==
    /\ Len(suf) <= Len(s)
    /\ SubSeq(s, Len(s) - Len(suf) + 1, Len(s)) = suf


\* The i-th character of s, as a one-character string
Char(s, i) == SubSeq(s, i, i)

\* s.replace(old, new), old not empty
RECURSIVE Replace(_, _, _)
Replace(s, old, new) ==
    IF Len(s) < Len(old) THEN s
    ELSE IF SubSeq(s, 1, Len(old)) = old
    THEN new \o Replace(SubSeq(s, Len(old) + 1, Len(s)), old, new)
    ELSE Char(s, 1) \o Replace(Tail(s), old, new)

\* '\n'.join(lines)
RECURSIVE Join(_)
Join(lines) ==
    IF lines = <<>> THEN ""
    ELSE IF Len(lines) = 1 THEN lines[1]
    ELSE lines[1] \o "\n" \o Join(Tail(lines))

\* s * n
RECURSIVE Repeat(_, _)
Repeat(s, n) == IF n <= 0 THEN "" ELSE s \o Repeat(s, n - 1)

\* s.center(width): the left margin takes the smaller half, and one more
\* when the margin and the width are both odd
Center(s, width) ==
    LET marg == width - Len(s)
        left == (marg \div 2) + (IF marg % 2 = 1 /\ width % 2 = 1 THEN 1 ELSE 0)
    IN  IF marg <= 0 THEN s
        ELSE Repeat(" ", left) \o s \o Repeat(" ", marg - left)

\* s.split('\\')[-1]: what follows the last backslash
LastSegment(s) ==
    LET cuts == { i \in 1..Len(s) : Char(s, i) = "\\" }
    IN  IF cuts = {} THEN s
        ELSE SubSeq(s, (CHOOSE i \in cuts : \A j \in cuts : j <= i) + 1, Len(s))

UpperLetters == "ABCDEFGHIJKLMNOPQRSTUVWXYZ"
LowerLetters == "abcdefghijklmnopqrstuvwxyz"

\* c.lower() for one character (ASCII letters)
LowerChar(c) ==
    IF \E i \in 1..26 : Char(UpperLetters, i) = c
    THEN Char(LowerLetters, CHOOSE i \in 1..26 : Char(UpperLetters, i) = c)
    ELSE c

\* s.lower()
RECURSIVE Lower(_)
Lower(s) == IF s = "" THEN "" ELSE LowerChar(Char(s, 1)) \o Lower(Tail(s))

Whitespace == {" ", "\t", "\n", "\r", "\f"}
Digits == {"0", "1", "2", "3", "4", "5", "6", "7", "8", "9"}

DigitValue(c) ==
    CASE c = "0" -> 0 [] c = "1" -> 1 [] c = "2" -> 2 [] c = "3" -> 3
      [] c = "4" -> 4 [] c = "5" -> 5 [] c = "6" -> 6 [] c = "7" -> 7
      [] c = "8" -> 8 [] c = "9" -> 9

\* s.lstrip() / s.rstrip() / s.strip()
RECURSIVE LStrip(_)
LStrip(s) == IF s # "" /\ Char(s, 1) \in Whitespace THEN LStrip(Tail(s)) ELSE s

RECURSIVE RStrip(_)
RStrip(s) ==
    IF s # "" /\ Char(s, Len(s)) \in Whitespace
    THEN RStrip(SubSeq(s, 1, Len(s) - 1)) ELSE s

Strip(s) == RStrip(LStrip(s))

\* The text int() reads after stripping: the sign taken off
Unsigned(t) == IF t # "" /\ Char(t, 1) \in {"+", "-"} THEN Tail(t) ELSE t

\* Whether int(s) accepts the str s: optional whitespace around an optional
\* sign and decimal digits, single underscores allowed between digits
IsIntLiteral(s) ==
    LET Accepted(u) ==
            /\ u # ""
            /\ \A i \in 1..Len(u) : Char(u, i) \in Digits \cup {"_"}
            /\ Char(u, 1) # "_"
            /\ Char(u, Len(u)) # "_"
            /\ \A i \in 1..(Len(u) - 1) : ~(Char(u, i) = "_" /\ Char(u, i + 1) = "_")
    IN  Accepted(Unsigned(Strip(s)))

\* The number the digits of u denote, read left to right from acc
RECURSIVE DigitsValue(_, _)
DigitsValue(u, acc) ==
    IF u = "" THEN acc
    ELSE IF Char(u, 1) = "_" THEN DigitsValue(Tail(u), acc)
    ELSE DigitsValue(Tail(u), 10 * acc + DigitValue(Char(u, 1)))

IntLiteralValue(s) ==
    LET Signed(t, n) == IF Char(t, 1) = "-" THEN 0 - n ELSE n
        Value(t) == Signed(t, DigitsValue(Unsigned(t), 0))
    IN  Value(Strip(s))

\* int(v) for an int or a str: [val, exc]
PyIntOf(v) ==
    IF IsInt(v) THEN [val |-> v[2], exc |-> "none"]
    ELSE IF IsStr(v)
    THEN IF IsIntLiteral(v[2])
         THEN [val |-> IntLiteralValue(v[2]), exc |-> "none"]
         ELSE [val |-> 0, exc |-> "ValueError"]
    ELSE [val |-> 0, exc |-> "TypeError"]

-----------------------------------------------------------------------------
(* Elements *)

DTS_NS == "www.microsoft.com/SqlServer/Dts"

Elem(tag, attrib, text, children) ==
    [tag |-> tag, attrib |-> attrib, text |-> text, children |-> children]

NoAttrs == [k \in {} |-> ""]

\* Element.get(key, default)
ElemGet(elem, key, default) ==
    IF key \in DOMAIN elem.attrib THEN PyStr(elem.attrib[key]) ELSE default

\* ElementTree's spelling of a tag in the DTS namespace
Tag(local) == "{" \o DTS_NS \o "}" \o local

\* An attribute map from a set of <<key, value>> pairs with distinct keys
Attrs(pairs) ==
    [k \in { p[1] : p \in pairs } |-> (CHOOSE p \in pairs : p[1] = k)[2]]

\* Element.iter(): the element and its descendants in document order
RECURSIVE Iter(_)
RECURSIVE IterAll(_)
Iter(elem) == <<elem>> \o IterAll(elem.children)
IterAll(elems) ==
    IF elems = <<>> THEN <<>> ELSE Iter(Head(elems)) \o IterAll(Tail(elems))

\* The key spellings _get_attr tries
NsKey(attr) == "{" \o DTS_NS \o "}" \o attr
BareKey(attr) == attr
PrefixKey(attr) == "DTS:" \o attr

\* A plausible slip: the third tier (the literal DTS: prefix) is not tried
GetAttrNoPrefixTier(elem, attr, default) ==
    LET v1 == ElemGet(elem, NsKey(attr), None)
        v2 == ElemGet(elem, BareKey(attr), None)
    IN  IF v1 # None THEN v1
        ELSE IF v2 # None THEN v2
        ELSE default

\* DtsxParser._get_attr
GetAttr(elem, attr, default) ==
    LET v1 == ElemGet(elem, NsKey(attr), None)
        v2 == ElemGet(elem, BareKey(attr), None)
        v3 == ElemGet(elem, PrefixKey(attr), None)
    IN  IF v1 # None THEN v1
        ELSE IF v2 # None THEN v2
        ELSE IF v3 # None THEN v3
        ELSE default

-----------------------------------------------------------------------------
(* Inputs of a direct _get_attr call *)

AttrValues == {"", "u", "v", "w"}
AttrName == "name"
GetAttrKeys == {NsKey(AttrName), BareKey(AttrName), PrefixKey(AttrName)}
GetAttrElems ==
    { Elem("node", f, None, <<>>) :
        f \in UNION { [K -> AttrValues] : K \in SUBSET GetAttrKeys } }
GetAttrDefaults == {None, PyStr("d"), PyInt(0)}


-----------------------------------------------------------------------------
(* Model records *)

\* models.ControlFlowStage as _parse_executable_as_stage constructs it
ControlFlowStage(order, name, stage_type, description, tasks) ==
    [order |-> order, name |-> name, stage_type |-> stage_type,
     description |-> description, tasks |-> tasks,
     precedence_from |-> <<>>, precedence_to |-> <<>>, condition |-> None]

\* models.PrecedenceConstraint
PrecedenceConstraint(name, ref_id, dtsid, from_ref, to_ref, value, logical_and, expression, eval_op) ==
    [name |-> name, ref_id |-> ref_id, dtsid |-> dtsid,
     from_ref |-> from_ref, to_ref |-> to_ref, value |-> value,
     logical_and |-> logical_and, expression |-> expression, eval_op |-> eval_op]

\* d[k] = v of a dict
DictPut(d, k, v) == [x \in (DOMAIN d) \cup {k} |-> IF x = k THEN v ELSE d[x]]

\* d.get(k): the index of the stage object, 0 for None
DictGet(d, k) == IF k \in DOMAIN d THEN d[k] ELSE 0

EmptyDict == [k \in {} |-> 0]

\* x in list
InList(x, list) == \E i \in 1..Len(list) : list[i] = x

\* The elements of a sequence
Range(seq) == { seq[i] : i \in 1..Len(seq) }

\* models.Variable
Variable(name, namespace, dtsid, data_type, value, expression, read_only) ==
    [name |-> name, namespace |-> namespace, dtsid |-> dtsid,
     data_type |-> data_type, value |-> value, expression |-> expression,
     read_only |-> read_only]

\* models.Parameter
Parameter(name, dtsid, data_type, value, sensitive, required) ==
    [name |-> name, dtsid |-> dtsid, data_type |-> data_type, value |-> value,
     sensitive |-> sensitive, required |-> required]

-----------------------------------------------------------------------------
(* DtsxParser._parse_precedence_constraint *)

\* The constraint built from a PrecedenceConstraint element, or the
\* exception int() raises on a Value / EvalOp that is no integer literal
ParsePrecedenceConstraint(elem) ==
    LET Built(value, eval_op) ==
            IF value.exc # "none" THEN [val |-> None, exc |-> value.exc]
            ELSE IF eval_op.exc # "none" THEN [val |-> None, exc |-> eval_op.exc]
            ELSE [val |-> PrecedenceConstraint(
                            GetAttr(elem, "ObjectName", PyStr(""))[2],
                            GetAttr(elem, "refId", PyStr(""))[2],
                            GetAttr(elem, "DTSID", PyStr(""))[2],
                            GetAttr(elem, "From", PyStr(""))[2],
                            GetAttr(elem, "To", PyStr(""))[2],
                            value.val,
                            GetAttr(elem, "LogicalAnd", PyStr("True")) = PyStr("True"),
                            GetAttr(elem, "Expression", None),
                            IF Truthy(GetAttr(elem, "EvalOp", None))
                            THEN PyInt(eval_op.val) ELSE None),
                  exc |-> "none"]
    IN  Built(PyIntOf(GetAttr(elem, "Value", PyInt(0))),
              IF Truthy(GetAttr(elem, "EvalOp", None))
              THEN PyIntOf(GetAttr(elem, "EvalOp", PyInt(0)))
              ELSE [val |-> 0, exc |-> "none"])

-----------------------------------------------------------------------------
(* DtsxParser._parse_connection_string *)

\* Whether name, '=' and a character other than ';' stand at position i of s,
\* letters compared without case: where '(?:...)=([^;]+)' can match
KeyAt(s, name, i) ==
    /\ i + Len(name) + 1 <= Len(s)
    /\ SubSeq(Lower(s), i, i + Len(name) - 1) = Lower(name)
    /\ Char(s, i + Len(name)) = "="
    /\ Char(s, i + Len(name) + 1) # ";"

\* [^;]+ from position i of s: the characters up to the next ';' or the end
RECURSIVE UpToSemicolon(_, _)
UpToSemicolon(s, i) ==
    IF i > Len(s) \/ Char(s, i) = ";" THEN ""
    ELSE Char(s, i) \o UpToSemicolon(s, i + 1)

\* re.search(r'(?:name1|name2)=([^;]+)', s, re.IGNORECASE): group 1 of the
\* leftmost match, at one position the alternative written first; None
\* without a match
SearchGroup(names, s) ==
    LET alts == { m \in (1..Len(s)) \X (1..Len(names)) : KeyAt(s, names[m[2]], m[1]) }
        Group(m) == PyStr(UpToSemicolon(s, m[1] + Len(names[m[2]]) + 1))
    IN  IF alts = {} THEN None
        ELSE Group(CHOOSE m \in alts :
                     \A n \in alts : m[1] < n[1] \/ (m[1] = n[1] /\ m[2] <= n[2]))

ServerKeys == << "Data Source", "Server" >>
DatabaseKeys == << "Initial Catalog", "Database" >>
ProviderKeys == << "Provider" >>

\* _parse_connection_string(conn_string): (server, database, provider)
ParseConnectionString(conn_string) ==
    IF ~Truthy(conn_string) THEN << None, None, None >>
    ELSE << SearchGroup(ServerKeys, conn_string[2]),
            SearchGroup(DatabaseKeys, conn_string[2]),
            SearchGroup(ProviderKeys, conn_string[2]) >>

-----------------------------------------------------------------------------
(* DtsxParser._parse_variables *)

\* The index of the first child whose tag contains sub, 0 when there is none
FirstChildWithTag(elem, sub) ==
    IF \E i \in 1..Len(elem.children) : Contains(sub, elem.children[i].tag)
    THEN CHOOSE i \in 1..Len(elem.children) :
            /\ Contains(sub, elem.children[i].tag)
            /\ \A j \in 1..(i - 1) : ~Contains(sub, elem.children[j].tag)
    ELSE 0

\* One Variable element: data_type is 8 unless a VariableValue child is
\* found, and then int() of its DataType
ParseVariable(var) ==
    LET Built(data_type, value) ==
            IF data_type.exc # "none" THEN [val |-> None, exc |-> data_type.exc]
            ELSE [val |-> Variable(
                            GetAttr(var, "ObjectName", PyStr("Unknown"))[2],
                            GetAttr(var, "Namespace", PyStr("User"))[2],
                            GetAttr(var, "DTSID", PyStr(""))[2],
                            data_type.val,
                            value,
                            GetAttr(var, "Expression", None),
                            GetAttr(var, "ReadOnly", PyStr("False")) = PyStr("True")),
                  exc |-> "none"]
        WithValueChild(k) ==
            IF k = 0 THEN Built([val |-> 8, exc |-> "none"], None)
            ELSE Built(PyIntOf(GetAttr(var.children[k], "DataType", PyInt(8))),
                       var.children[k].text)
    IN  WithValueChild(FirstChildWithTag(var, "VariableValue"))

\* for var in elem: the Variable children of one Variables container
RECURSIVE ParseVariableChildren(_, _)
ParseVariableChildren(children, acc) ==
    IF children = <<>> \/ acc.exc # "none" THEN acc
    ELSE IF Contains("Variable", Head(children).tag)
    THEN LET Appended(v) ==
                 IF v.exc # "none" THEN [val |-> acc.val, exc |-> v.exc]
                 ELSE [val |-> Append(acc.val, v.val), exc |-> "none"]
         IN  ParseVariableChildren(Tail(children),
                                   Appended(ParseVariable(Head(children))))
    ELSE ParseVariableChildren(Tail(children), acc)

\* for elem in self.root.iter()
RECURSIVE ParseVariablesIn(_, _)
ParseVariablesIn(elems, acc) ==
    IF elems = <<>> \/ acc.exc # "none" THEN acc
    ELSE IF /\ EndsWith(Head(elems).tag, "Variables")
            /\ ~EndsWith(Head(elems).tag, "PackageVariables")
    THEN ParseVariablesIn(Tail(elems),
             ParseVariableChildren(Head(elems).children, acc))
    ELSE ParseVariablesIn(Tail(elems), acc)

ParseVariables(r) == ParseVariablesIn(Iter(r), [val |-> <<>>, exc |-> "none"])

-----------------------------------------------------------------------------
(* DtsxParser._parse_parameters *)

\* The text of the first Property child named ParameterValue, None without one
ParameterValueOf(param) ==
    LET hits == { i \in 1..Len(param.children) :
                    /\ Contains("Property", param.children[i].tag)
                    /\ GetAttr(param.children[i], "Name", None) = PyStr("ParameterValue") }
    IN  IF hits = {} THEN None
        ELSE param.children[CHOOSE i \in hits : \A j \in hits : i <= j].text

ParseParameter(param) ==
    LET Built(data_type) ==
            IF data_type.exc # "none" THEN [val |-> None, exc |-> data_type.exc]
            ELSE [val |-> Parameter(
                            GetAttr(param, "ObjectName", PyStr("Unknown"))[2],
                            GetAttr(param, "DTSID", PyStr(""))[2],
                            data_type.val,
                            ParameterValueOf(param),
                            GetAttr(param, "Sensitive", PyStr("0")) = PyStr("1"),
                            GetAttr(param, "Required", PyStr("0")) = PyStr("1")),
                  exc |-> "none"]
    IN  Built(PyIntOf(GetAttr(param, "DataType", PyInt(8))))

\* for param in elem
RECURSIVE ParseParameterChildren(_, _)
ParseParameterChildren(children, acc) ==
    IF children = <<>> \/ acc.exc # "none" THEN acc
    ELSE IF Contains("PackageParameter", Head(children).tag)
    THEN LET Appended(v) ==
                 IF v.exc # "none" THEN [val |-> acc.val, exc |-> v.exc]
                 ELSE [val |-> Append(acc.val, v.val), exc |-> "none"]
         IN  ParseParameterChildren(Tail(children),
                                    Appended(ParseParameter(Head(children))))
    ELSE ParseParameterChildren(Tail(children), acc)

\* for elem in self.root.iter()
RECURSIVE ParseParametersIn(_, _)
ParseParametersIn(elems, acc) ==
    IF elems = <<>> \/ acc.exc # "none" THEN acc
    ELSE IF Contains("PackageParameters", Head(elems).tag)
    THEN ParseParametersIn(Tail(elems),
             ParseParameterChildren(Head(elems).children, acc))
    ELSE ParseParametersIn(Tail(elems), acc)

ParseParameters(r) == ParseParametersIn(Iter(r), [val |-> <<>>, exc |-> "none"])

-----------------------------------------------------------------------------
(* DtsxParser._parse_data_flow_component *)

\* models.Column
Column(name, ref_id, data_type, length) ==
    [name |-> name, ref_id |-> ref_id, data_type |-> data_type, length |-> length]

\* models.OutputColumn
OutputColumn(name, ref_id, data_type, length, expression) ==
    [name |-> name, ref_id |-> ref_id, data_type |-> data_type,
     length |-> length, expression |-> expression]

\* models.ConditionalOutput
ConditionalOutput(name, expression, friendly_expression, evaluation_order, is_default) ==
    [name |-> name, expression |-> expression,
     friendly_expression |-> friendly_expression,
     evaluation_order |-> evaluation_order, is_default |-> is_default]

\* models.DataFlowComponent
DataFlowComponent(name, ref_id, component_type, component_class, description, input_columns, output_columns, conditional_outputs, connection_manager, sql_command, table_name, properties, has_error_output) ==
    [name |-> name, ref_id |-> ref_id, component_type |-> component_type,
     component_class |-> component_class, description |-> description,
     input_columns |-> input_columns, output_columns |-> output_columns,
     conditional_outputs |-> conditional_outputs,
     connection_manager |-> connection_manager, sql_command |-> sql_command,
     table_name |-> table_name, properties |-> properties,
     has_error_output |-> has_error_output]

\* for c in elem: if c.tag == t
ChildrenTagged(elem, t) == SelectSeq(elem.children, LAMBDA c : c.tag = t)

\* for a in containers: for c in a: if c.tag == t
RECURSIVE ConcatChildren(_, _)
ConcatChildren(containers, t) ==
    IF containers = <<>> THEN <<>>
    ELSE ChildrenTagged(Head(containers), t) \o ConcatChildren(Tail(containers), t)

\* for a in elem: if a.tag == outer: for c in a: if c.tag == inner
Nested(elem, outer, inner) == ConcatChildren(ChildrenTagged(elem, outer), inner)

\* A plausible slip: Destination is tested before Source
ComponentTypeDestinationFirst(comp_class) ==
    IF Contains("Destination", comp_class) THEN "Destination"
    ELSE IF Contains("Source", comp_class) THEN "Source"
    ELSE "Transform"

\* comp_type from the class identifier
ComponentType(comp_class) ==
    IF Contains("Source", comp_class) THEN "Source"
    ELSE IF Contains("Destination", comp_class) THEN "Destination"
    ELSE "Transform"

\* props[name] = value over the component's property elements
RECURSIVE PropertyDict(_, _)
PropertyDict(props, d) ==
    IF props = <<>> THEN d
    ELSE PropertyDict(Tail(props),
             DictPut(d, ElemGet(Head(props), "name", PyStr(""))[2], Head(props).text))

\* The value assigned last to sql_command / table_name: the text of the last
\* property element with that name
LastTextNamed(props, name) ==
    LET hits == { i \in 1..Len(props) : ElemGet(props[i], "name", PyStr("")) = PyStr(name) }
    IN  IF hits = {} THEN None
        ELSE props[CHOOSE i \in hits : \A j \in hits : j <= i].text

\* int(col.get(key, 0)) if col.get(key) else None: [val, exc]
OptionalLength(col, key) ==
    IF Truthy(ElemGet(col, key, None))
    THEN LET Boxed(n) == [val |-> PyInt(n.val), exc |-> n.exc]
         IN  Boxed(PyIntOf(ElemGet(col, key, PyInt(0))))
    ELSE [val |-> None, exc |-> "none"]

\* The locals of the loop over one output's properties container
NoRoute ==
    [expr |-> None, friendly_expr |-> None, eval_order |-> None,
     is_default |-> PyBool(FALSE), exc |-> "none"]

\* One property of an output: p.text is None or a str; `p.text and
\* p.text.lower() == 'true'` is p.text itself when that is None or empty
OutputPropertyStep(st, p) ==
    LET pname == ElemGet(p, "name", PyStr(""))[2]
    IN  CASE pname = "Expression" -> [st EXCEPT !.expr = p.text]
          [] pname = "FriendlyExpression" -> [st EXCEPT !.friendly_expr = p.text]
          [] pname = "EvaluationOrder" ->
                IF Truthy(p.text)
                THEN LET Ordered(n) ==
                             IF n.exc # "none" THEN [st EXCEPT !.exc = n.exc]
                             ELSE [st EXCEPT !.eval_order = PyInt(n.val)]
                     IN  Ordered(PyIntOf(p.text))
                ELSE [st EXCEPT !.eval_order = None]
          [] pname = "IsDefaultOut" ->
                [st EXCEPT !.is_default =
                    IF Truthy(p.text) THEN PyBool(Lower(p.text[2]) = "true")
                    ELSE p.text]
          [] OTHER -> st

\* for p in out_props: if p.tag == 'property'
RECURSIVE OutputProperties(_, _)
OutputProperties(ps, st) ==
    IF ps = <<>> \/ st.exc # "none" THEN st
    ELSE OutputProperties(Tail(ps), OutputPropertyStep(st, Head(ps)))

\* A plausible slip: only an expression makes an output a route
IsRouteExpressionOnly(st) == Truthy(st.expr)

\* if expr or is_default
IsRoute(st) == Truthy(st.expr) \/ Truthy(st.is_default)

\* for out_props in output: if out_props.tag == 'properties'.
\* acc is [conditional_outputs, output_columns, has_error_output, exc]
RECURSIVE OutputRoutes(_, _, _)
OutputRoutes(containers, output_name, acc) ==
    IF containers = <<>> \/ acc.exc # "none" THEN acc
    ELSE LET Recorded(st) ==
                 IF st.exc # "none" THEN [acc EXCEPT !.exc = st.exc]
                 ELSE IF IsRoute(st)
                 THEN [acc EXCEPT !.conditional_outputs =
                          Append(@, ConditionalOutput(output_name, st.expr,
                                        st.friendly_expr, st.eval_order, st.is_default))]
                 ELSE acc
         IN  OutputRoutes(Tail(containers), output_name,
                 Recorded(OutputProperties(
                              ChildrenTagged(Head(containers), "property"), NoRoute)))

\* for col in out_cols: if col.tag == 'outputColumn'
RECURSIVE OutputColumns(_, _)
OutputColumns(cols, acc) ==
    IF cols = <<>> \/ acc.exc # "none" THEN acc
    ELSE LET Appended(len) ==
                 IF len.exc # "none" THEN [acc EXCEPT !.exc = len.exc]
                 ELSE [acc EXCEPT !.output_columns =
                          Append(@, OutputColumn(
                                        ElemGet(Head(cols), "name", PyStr(""))[2],
                                        ElemGet(Head(cols), "refId", PyStr(""))[2],
                                        ElemGet(Head(cols), "dataType", None),
                                        len.val,
                                        ElemGet(Head(cols), "expression", None)))]
         IN  OutputColumns(Tail(cols), Appended(OptionalLength(Head(cols), "length")))

\* The body of the loop over the output elements
ParseOutput(output, acc) ==
    LET is_error == Lower(ElemGet(output, "isErrorOut", PyStr("false"))[2]) = "true"
        a1 == [acc EXCEPT !.has_error_output = @ \/ is_error]
        a2 == OutputRoutes(ChildrenTagged(output, "properties"),
                           ElemGet(output, "name", PyStr(""))[2], a1)
    IN  OutputColumns(Nested(output, "outputColumns", "outputColumn"), a2)

\* for output in outputs_container: if output.tag == 'output'
RECURSIVE ParseOutputs(_, _)
ParseOutputs(outputs, acc) ==
    IF outputs = <<>> \/ acc.exc # "none" THEN acc
    ELSE ParseOutputs(Tail(outputs), ParseOutput(Head(outputs), acc))

\* for col in inp_cols: if col.tag == 'inputColumn'
RECURSIVE InputColumns(_, _)
InputColumns(cols, acc) ==
    IF cols = <<>> \/ acc.exc # "none" THEN acc
    ELSE LET Appended(len) ==
                 IF len.exc # "none" THEN [acc EXCEPT !.exc = len.exc]
                 ELSE [acc EXCEPT !.val =
                          Append(@, Column(
                                        ElemGet(Head(cols), "cachedName", PyStr(""))[2],
                                        ElemGet(Head(cols), "refId", PyStr(""))[2],
                                        ElemGet(Head(cols), "cachedDataType", None),
                                        len.val))]
         IN  InputColumns(Tail(cols),
                          Appended(OptionalLength(Head(cols), "cachedLength")))

\* for inp in inputs_container: if inp.tag == 'input'
RECURSIVE ParseInputs(_, _)
ParseInputs(inputs, acc) ==
    IF inputs = <<>> \/ acc.exc # "none" THEN acc
    ELSE ParseInputs(Tail(inputs),
             InputColumns(Nested(Head(inputs), "inputColumns", "inputColumn"), acc))

\* conn_manager: the first connection of the last connections container
\* that has one
ConnectionManagerOf(elem) ==
    LET conns == SelectSeq(ChildrenTagged(elem, "connections"),
                           LAMBDA c : ChildrenTagged(c, "connection") # <<>>)
    IN  IF conns = <<>> THEN None
        ELSE ElemGet(Head(ChildrenTagged(conns[Len(conns)], "connection")),
                     "connectionManagerRefId", PyStr(""))

\* _parse_data_flow_component(elem): [val, exc]
ParseDataFlowComponent(elem) ==
    LET Built(comp_class, props, outs, ins) ==
            IF ins.exc # "none" THEN [val |-> None, exc |-> ins.exc]
            ELSE [val |-> DataFlowComponent(
                            ElemGet(elem, "name", PyStr("Unknown"))[2],
                            ElemGet(elem, "refId", PyStr(""))[2],
                            ComponentType(comp_class),
                            comp_class,
                            ElemGet(elem, "description", None),
                            ins.val,
                            outs.output_columns,
                            outs.conditional_outputs,
                            ConnectionManagerOf(elem),
                            LastTextNamed(props, "SqlCommand"),
                            LastTextNamed(props, "OpenRowset"),
                            PropertyDict(props, [k \in {} |-> None]),
                            outs.has_error_output),
                  exc |-> "none"]
        WithOutputs(outs) ==
            Built(ElemGet(elem, "componentClassID", PyStr(""))[2],
                  Nested(elem, "properties", "property"),
                  outs,
                  IF outs.exc # "none" THEN [val |-> <<>>, exc |-> outs.exc]
                  ELSE ParseInputs(Nested(elem, "inputs", "input"),
                                   [val |-> <<>>, exc |-> "none"]))
    IN  WithOutputs(ParseOutputs(Nested(elem, "outputs", "output"),
                        [conditional_outputs |-> <<>>, output_columns |-> <<>>,
                         has_error_output |-> FALSE, exc |-> "none"]))

-----------------------------------------------------------------------------
(* DtsxParser._parse_data_flow_tasks, _parse_data_flow_task, _parse_data_flow_path *)

\* models.DataFlowPath
DataFlowPath(name, ref_id, source_ref_id, destination_ref_id) ==
    [name |-> name, ref_id |-> ref_id, source_ref_id |-> source_ref_id,
     destination_ref_id |-> destination_ref_id]

\* models.DataFlowTask
DataFlowTask(name, ref_id, dtsid, description, components, paths) ==
    [name |-> name, ref_id |-> ref_id, dtsid |-> dtsid, description |-> description,
     components |-> components, paths |-> paths]

\* _parse_data_flow_path(elem)
ParseDataFlowPath(elem) ==
    DataFlowPath(ElemGet(elem, "name", PyStr(""))[2],
                 ElemGet(elem, "refId", PyStr(""))[2],
                 ElemGet(elem, "startId", PyStr(""))[2],
                 ElemGet(elem, "endId", PyStr(""))[2])

\* for comp in comp_container: if comp.tag == 'component'.
\* acc is [components, paths, exc]
RECURSIVE ComponentLoop(_, _)
ComponentLoop(children, acc) ==
    IF children = <<>> \/ acc.exc # "none" THEN acc
    ELSE IF Head(children).tag = "component"
    THEN LET Appended(c) ==
                 IF c.exc # "none" THEN [acc EXCEPT !.exc = c.exc]
                 ELSE [acc EXCEPT !.components = Append(@, c.val)]
         IN  ComponentLoop(Tail(children),
                           Appended(ParseDataFlowComponent(Head(children))))
    ELSE ComponentLoop(Tail(children), acc)

\* for path in comp_container: if path.tag == 'path'
RECURSIVE PathLoop(_, _)
PathLoop(children, acc) ==
    IF children = <<>> THEN acc
    ELSE IF Head(children).tag = "path"
    THEN PathLoop(Tail(children),
                  [acc EXCEPT !.paths = Append(@, ParseDataFlowPath(Head(children)))])
    ELSE PathLoop(Tail(children), acc)

\* for comp_container in pipeline: components / paths containers
RECURSIVE PipelineChildren(_, _)
PipelineChildren(children, acc) ==
    IF children = <<>> \/ acc.exc # "none" THEN acc
    ELSE IF Head(children).tag = "components"
    THEN PipelineChildren(Tail(children), ComponentLoop(Head(children).children, acc))
    ELSE IF Head(children).tag = "paths"
    THEN PipelineChildren(Tail(children), PathLoop(Head(children).children, acc))
    ELSE PipelineChildren(Tail(children), acc)

\* for pipeline in obj_data.iter(): if pipeline.tag == 'pipeline'
RECURSIVE PipelinesIn(_, _)
PipelinesIn(elems, acc) ==
    IF elems = <<>> \/ acc.exc # "none" THEN acc
    ELSE IF Head(elems).tag = "pipeline"
    THEN PipelinesIn(Tail(elems), PipelineChildren(Head(elems).children, acc))
    ELSE PipelinesIn(Tail(elems), acc)

\* for obj_data in elem.iter(): if obj_data.tag == 'pipeline' or 'ObjectData'
\* in obj_data.tag.  A pipeline element below an ObjectData element is
\* reached from both.
RECURSIVE ObjectDataIn(_, _)
ObjectDataIn(elems, acc) ==
    IF elems = <<>> \/ acc.exc # "none" THEN acc
    ELSE IF Head(elems).tag = "pipeline" \/ Contains("ObjectData", Head(elems).tag)
    THEN ObjectDataIn(Tail(elems), PipelinesIn(Iter(Head(elems)), acc))
    ELSE ObjectDataIn(Tail(elems), acc)

\* _parse_data_flow_task(elem): [val, exc]
ParseDataFlowTask(elem) ==
    LET Built(found) ==
            IF found.exc # "none" THEN [val |-> None, exc |-> found.exc]
            ELSE [val |-> DataFlowTask(
                            GetAttr(elem, "ObjectName", PyStr("Unknown"))[2],
                            GetAttr(elem, "refId", PyStr(""))[2],
                            GetAttr(elem, "DTSID", PyStr(""))[2],
                            GetAttr(elem, "Description", None),
                            found.components,
                            found.paths),
                  exc |-> "none"]
    IN  Built(ObjectDataIn(Iter(elem),
                  [components |-> <<>>, paths |-> <<>>, exc |-> "none"]))

\* if 'Executable' in elem.tag and ('Pipeline' in exec_type or 'Pipeline' in
\* creation_name)
IsPipeline(elem) ==
    /\ Contains("Executable", elem.tag)
    /\ \/ Contains("Pipeline", GetAttr(elem, "ExecutableType", PyStr(""))[2])
       \/ Contains("Pipeline", GetAttr(elem, "CreationName", PyStr(""))[2])

\* for elem in self.root.iter(): acc is [val, exc]
RECURSIVE DataFlowTasksIn(_, _)
DataFlowTasksIn(elems, acc) ==
    IF elems = <<>> \/ acc.exc # "none" THEN acc
    ELSE IF IsPipeline(Head(elems))
    THEN LET Appended(t) ==
                 IF t.exc # "none" THEN [acc EXCEPT !.exc = t.exc]
                 ELSE [acc EXCEPT !.val = Append(@, t.val)]
         IN  DataFlowTasksIn(Tail(elems), Appended(ParseDataFlowTask(Head(elems))))
    ELSE DataFlowTasksIn(Tail(elems), acc)

\* The children of the elements given, in document order
RECURSIVE ChildrenOf(_)
ChildrenOf(elems) ==
    IF elems = <<>> THEN <<>> ELSE Head(elems).children \o ChildrenOf(Tail(elems))

\* A plausible slip: only the children of the root's containers are looked
\* at (the executables that become stages), not every element of the document
ParseDataFlowTasksTopLevelOnly(r) ==
    DataFlowTasksIn(ChildrenOf(r.children), [val |-> <<>>, exc |-> "none"])

\* _parse_data_flow_tasks(): [val, exc]
ParseDataFlowTasks(r) == DataFlowTasksIn(Iter(r), [val |-> <<>>, exc |-> "none"])

-----------------------------------------------------------------------------
(* DtsxParser._link_stages_with_precedence *)

\* The inner loop of the lookup construction: for constraint in constraints,
\* for the stage at index i
RECURSIVE LookupInner(_, _, _, _, _)
LookupInner(d, stgs, cons, i, k) ==
    IF k > Len(cons) THEN d
    ELSE LET c == cons[k]
             d1 == IF Contains(stgs[i].name, c.from_ref)
                   THEN DictPut(d, c.from_ref, i) ELSE d
             d2 == IF Contains(stgs[i].name, c.to_ref)
                   THEN DictPut(d1, c.to_ref, i) ELSE d1
         IN  LookupInner(d2, stgs, cons, i, k + 1)

\* The outer loop: for stage in stages
RECURSIVE LookupOuter(_, _, _, _)
LookupOuter(d, stgs, cons, i) ==
    IF i > Len(stgs) THEN d
    ELSE LookupOuter(LookupInner(d, stgs, cons, i, 1), stgs, cons, i + 1)

\* stage_by_ref, stages named by their index in the stage list
StageByRef(stgs, cons) == LookupOuter(EmptyDict, stgs, cons, 1)

\* A plausible slip: the predecessor list is never filled
LinkConstraintNoPredecessor(st, lookup, c) ==
    LET from_stage == DictGet(lookup, c.from_ref)
        to_stage == DictGet(lookup, c.to_ref)
        adds == from_stage # 0 /\ ~InList(c.to_ref, st.stages[from_stage].precedence_to)
        s1 == IF adds
              THEN [st.stages EXCEPT ![from_stage].precedence_to = Append(@, c.to_ref)]
              ELSE st.stages
        fails == adds /\ Truthy(c.expression) /\ to_stage = 0
        s2 == IF adds /\ Truthy(c.expression) /\ to_stage # 0
              THEN [s1 EXCEPT ![to_stage].condition = c.expression]
              ELSE s1
    IN  IF fails THEN [stages |-> s1, exc |-> "AttributeError"]
        ELSE [stages |-> s2, exc |-> "none"]

\* A plausible slip: the lists are appended to without the membership test
LinkConstraintNoDedup(st, lookup, c) ==
    LET from_stage == DictGet(lookup, c.from_ref)
        to_stage == DictGet(lookup, c.to_ref)
        adds == from_stage # 0
        s1 == IF adds
              THEN [st.stages EXCEPT ![from_stage].precedence_to = Append(@, c.to_ref)]
              ELSE st.stages
        fails == adds /\ Truthy(c.expression) /\ to_stage = 0
        s2 == IF adds /\ Truthy(c.expression) /\ to_stage # 0
              THEN [s1 EXCEPT ![to_stage].condition = c.expression]
              ELSE s1
        s3 == IF to_stage # 0
              THEN [s2 EXCEPT ![to_stage].precedence_from = Append(@, c.from_ref)]
              ELSE s2
    IN  IF fails THEN [stages |-> s1, exc |-> "AttributeError"]
        ELSE [stages |-> s3, exc |-> "none"]

\* The body of the second loop, for one constraint.  st is [stages, exc].
\* from_stage / to_stage are stage indexes (0 is None); a stage object is
\* always truthy.  Line 472 reads to_stage.condition = (expression if
\* to_stage else None): with to_stage None the assignment target raises
\* AttributeError, after precedence_to has been appended to.
LinkConstraint(st, lookup, c) ==
    LET from_stage == DictGet(lookup, c.from_ref)
        to_stage == DictGet(lookup, c.to_ref)
        adds == from_stage # 0 /\ ~InList(c.to_ref, st.stages[from_stage].precedence_to)
        s1 == IF adds
              THEN [st.stages EXCEPT ![from_stage].precedence_to = Append(@, c.to_ref)]
              ELSE st.stages
        fails == adds /\ Truthy(c.expression) /\ to_stage = 0
        s2 == IF adds /\ Truthy(c.expression) /\ to_stage # 0
              THEN [s1 EXCEPT ![to_stage].condition = c.expression]
              ELSE s1
        s3 == IF to_stage # 0 /\ ~InList(c.from_ref, s2[to_stage].precedence_from)
              THEN [s2 EXCEPT ![to_stage].precedence_from = Append(@, c.from_ref)]
              ELSE s2
    IN  IF fails THEN [stages |-> s1, exc |-> "AttributeError"]
        ELSE [stages |-> s3, exc |-> "none"]

\* The second loop: for constraint in constraints; an exception ends it
RECURSIVE LinkLoop(_, _, _, _)
LinkLoop(st, lookup, cons, k) ==
    IF k > Len(cons) \/ st.exc # "none" THEN st
    ELSE LinkLoop(LinkConstraint(st, lookup, cons[k]), lookup, cons, k + 1)

\* _link_stages_with_precedence(stages, constraints): the stage list as the
\* call leaves it, and the exception that left the call
LinkStagesWithPrecedence(stgs, cons) ==
    LinkLoop([stages |-> stgs, exc |-> "none"], StageByRef(stgs, cons), cons, 1)

-----------------------------------------------------------------------------
(* DtsxParser._parse_control_flow *)

SQLTASK_NS == "www.microsoft.com/sqlserver/dts/tasks/sqltask"
SENDMAILTASK_NS == "www.microsoft.com/sqlserver/dts/tasks/sendmailtask"

\* obj_data.get('{ns}attr', obj_data.get('prefix:attr'))
TaskAttr(elem, ns, prefix, attr) ==
    ElemGet(elem, "{" \o ns \o "}" \o attr, ElemGet(elem, prefix \o ":" \o attr, None))

\* for binding in obj_data.iter(): the parameter and result bindings
RECURSIVE BindingLoop(_, _)
BindingLoop(elems, details) ==
    IF elems = <<>> THEN details
    ELSE IF Contains("ParameterBinding", Head(elems).tag)
    THEN BindingLoop(Tail(elems),
             [details EXCEPT !.parameter_bindings = Append(@,
                 [parameter_name |-> TaskAttr(Head(elems), SQLTASK_NS, "SQLTask", "ParameterName"),
                  variable_name |-> TaskAttr(Head(elems), SQLTASK_NS, "SQLTask", "DtsVariableName")])])
    ELSE IF Contains("ResultBinding", Head(elems).tag)
    THEN BindingLoop(Tail(elems),
             [details EXCEPT !.result_bindings = Append(@,
                 [result_name |-> TaskAttr(Head(elems), SQLTASK_NS, "SQLTask", "ResultName"),
                  variable_name |-> TaskAttr(Head(elems), SQLTASK_NS, "SQLTask", "DtsVariableName")])])
    ELSE BindingLoop(Tail(elems), details)

\* for obj_data in elem.iter(): if 'SqlTaskData' in obj_data.tag
RECURSIVE SqlTaskDataLoop(_, _)
SqlTaskDataLoop(elems, details) ==
    IF elems = <<>> THEN details
    ELSE IF Contains("SqlTaskData", Head(elems).tag)
    THEN SqlTaskDataLoop(Tail(elems),
             BindingLoop(Iter(Head(elems)),
                 [details EXCEPT
                     !.sql_statement = TaskAttr(Head(elems), SQLTASK_NS, "SQLTask", "SqlStatementSource"),
                     !.connection = TaskAttr(Head(elems), SQLTASK_NS, "SQLTask", "Connection"),
                     !.result_set_type = TaskAttr(Head(elems), SQLTASK_NS, "SQLTask", "ResultSetType")]))
    ELSE SqlTaskDataLoop(Tail(elems), details)

\* _parse_sql_task_details(elem)
ParseSqlTaskDetails(elem) ==
    SqlTaskDataLoop(Iter(elem),
        [sql_statement |-> None, connection |-> None, result_set_type |-> None,
         parameter_bindings |-> <<>>, result_bindings |-> <<>>])

\* for child in obj_data: if 'MessageSource' in child.tag
RECURSIVE MessageSourceLoop(_, _)
MessageSourceLoop(children, details) ==
    IF children = <<>> THEN details
    ELSE IF Contains("MessageSource", Head(children).tag)
    THEN MessageSourceLoop(Tail(children),
                           [details EXCEPT !.message_source = Head(children).text])
    ELSE MessageSourceLoop(Tail(children), details)

\* for obj_data in elem.iter(): if 'SendMailTaskData' in obj_data.tag
RECURSIVE SendMailTaskDataLoop(_, _)
SendMailTaskDataLoop(elems, details) ==
    IF elems = <<>> THEN details
    ELSE IF Contains("SendMailTaskData", Head(elems).tag)
    THEN SendMailTaskDataLoop(Tail(elems),
             MessageSourceLoop(Head(elems).children,
                 [details EXCEPT
                     !.from_address = TaskAttr(Head(elems), SENDMAILTASK_NS, "SendMailTask", "From"),
                     !.to_address = TaskAttr(Head(elems), SENDMAILTASK_NS, "SendMailTask", "To"),
                     !.subject = TaskAttr(Head(elems), SENDMAILTASK_NS, "SendMailTask", "Subject"),
                     !.smtp_connection = TaskAttr(Head(elems), SENDMAILTASK_NS, "SendMailTask", "SMTPServer")]))
    ELSE SendMailTaskDataLoop(Tail(elems), details)

\* _parse_sendmail_task_details(elem)
ParseSendmailTaskDetails(elem) ==
    SendMailTaskDataLoop(Iter(elem),
        [from_address |-> None, to_address |-> None, subject |-> None,
         message_source |-> None, smtp_connection |-> None])

\* task.get(key): a task is a dict; a missing key gives None
TaskGet(task, key) == IF key \in DOMAIN task THEN task[key] ELSE None

\* _parse_task: the descriptor of a nested executable, with the SQL and the
\* mail details merged in (dict.update) for tasks of these kinds
ParseTask(elem) ==
    LET Described(exec_type, creation_name) ==
            LET task_info ==
                    [name |-> GetAttr(elem, "ObjectName", PyStr("Unknown"))[2],
                     ref_id |-> GetAttr(elem, "refId", PyStr(""))[2],
                     dtsid |-> GetAttr(elem, "DTSID", PyStr(""))[2],
                     type |-> IF exec_type # "" THEN exec_type ELSE creation_name,
                     description |-> GetAttr(elem, "Description", None)]
                WithSql(info) ==
                    IF Contains("ExecuteSQLTask", exec_type \o creation_name)
                    THEN ParseSqlTaskDetails(elem) @@ info ELSE info
                WithMail(info) ==
                    IF Contains("SendMailTask", exec_type \o creation_name)
                    THEN ParseSendmailTaskDetails(elem) @@ info ELSE info
            IN  WithMail(WithSql(task_info))
    IN  Described(GetAttr(elem, "ExecutableType", PyStr(""))[2],
                  GetAttr(elem, "CreationName", PyStr(""))[2])

\* for task_elem in child: if 'Executable' in task_elem.tag
RECURSIVE TasksOf(_)
TasksOf(children) ==
    IF children = <<>> THEN <<>>
    ELSE IF Contains("Executable", Head(children).tag)
    THEN <<ParseTask(Head(children))>> \o TasksOf(Tail(children))
    ELSE TasksOf(Tail(children))

\* for child in elem: if 'Executables' in child.tag
RECURSIVE NestedTasks(_)
NestedTasks(children) ==
    IF children = <<>> THEN <<>>
    ELSE IF Contains("Executables", Head(children).tag)
    THEN TasksOf(Head(children).children) \o NestedTasks(Tail(children))
    ELSE NestedTasks(Tail(children))

\* The stage kind from ExecutableType / CreationName
StageType(exec_type, creation_name) ==
    IF Contains("SEQUENCE", exec_type) \/ Contains("SEQUENCE", creation_name)
    THEN "Sequence"
    ELSE IF Contains("Pipeline", exec_type) \/ Contains("Pipeline", creation_name)
    THEN "DataFlow"
    ELSE IF Contains("ExecuteSQLTask", exec_type) \/ Contains("ExecuteSQLTask", creation_name)
    THEN "SqlTask"
    ELSE IF Contains("SendMailTask", exec_type) \/ Contains("SendMailTask", creation_name)
    THEN "SendMailTask"
    ELSE IF exec_type # "" THEN exec_type
    ELSE IF creation_name # "" THEN creation_name
    ELSE "Unknown"

\* _parse_executable_as_stage(elem, order)
ParseExecutableAsStage(elem, order) ==
    ControlFlowStage(
        order,
        GetAttr(elem, "ObjectName", PyStr("Stage_" \o ToString(order)))[2],
        StageType(GetAttr(elem, "ExecutableType", PyStr(""))[2],
                  GetAttr(elem, "CreationName", PyStr(""))[2]),
        GetAttr(elem, "Description", None),
        NestedTasks(elem.children))

\* for executable in elem: if 'Executable' in executable.tag: stage_order += 1 ...
\* acc is [stages, stage_order]
RECURSIVE ExecutableLoop(_, _)
ExecutableLoop(children, acc) ==
    IF children = <<>> THEN acc
    ELSE IF Contains("Executable", Head(children).tag)
    THEN ExecutableLoop(Tail(children),
             [stages |-> Append(acc.stages,
                            ParseExecutableAsStage(Head(children), acc.stage_order + 1)),
              stage_order |-> acc.stage_order + 1])
    ELSE ExecutableLoop(Tail(children), acc)

\* A plausible slip: the counter restarts in every Executables container
ContainerStagesRestart(elem, acc) ==
    ExecutableLoop(elem.children, [acc EXCEPT !.stage_order = 0])

\* The stages of one Executables container, numbered on from acc.stage_order
ContainerStages(elem, acc) == ExecutableLoop(elem.children, acc)

\* for elem in self.root: if 'Executables' in elem.tag
RECURSIVE ContainerLoop(_, _)
ContainerLoop(children, acc) ==
    IF children = <<>> THEN acc
    ELSE IF Contains("Executables", Head(children).tag)
    THEN ContainerLoop(Tail(children), ContainerStages(Head(children), acc))
    ELSE ContainerLoop(Tail(children), acc)

\* for constraint in elem: if 'PrecedenceConstraint' in constraint.tag.
\* acc is [val, exc]
RECURSIVE ConstraintLoop(_, _)
ConstraintLoop(children, acc) ==
    IF children = <<>> \/ acc.exc # "none" THEN acc
    ELSE IF Contains("PrecedenceConstraint", Head(children).tag)
    THEN LET Appended(c) ==
                 IF c.exc # "none" THEN [acc EXCEPT !.exc = c.exc]
                 ELSE [acc EXCEPT !.val = Append(@, c.val)]
         IN  ConstraintLoop(Tail(children),
                            Appended(ParsePrecedenceConstraint(Head(children))))
    ELSE ConstraintLoop(Tail(children), acc)

\* for elem in self.root: if 'PrecedenceConstraints' in elem.tag
RECURSIVE ConstraintContainerLoop(_, _)
ConstraintContainerLoop(children, acc) ==
    IF children = <<>> \/ acc.exc # "none" THEN acc
    ELSE IF Contains("PrecedenceConstraints", Head(children).tag)
    THEN ConstraintContainerLoop(Tail(children),
             ConstraintLoop(Head(children).children, acc))
    ELSE ConstraintContainerLoop(Tail(children), acc)

\* _parse_control_flow(): [stages, constraints, exc]
ParseControlFlow(r) ==
    LET Linked(all_constraints, linked) ==
            [stages |-> linked.stages, constraints |-> all_constraints,
             exc |-> linked.exc]
        Collected(built, all_constraints) ==
            IF all_constraints.exc # "none"
            THEN [stages |-> built, constraints |-> all_constraints.val,
                  exc |-> all_constraints.exc]
            ELSE Linked(all_constraints.val,
                        LinkStagesWithPrecedence(built, all_constraints.val))
    IN  Collected(ContainerLoop(r.children, [stages |-> <<>>, stage_order |-> 0]).stages,
                  ConstraintContainerLoop(r.children, [val |-> <<>>, exc |-> "none"]))

-----------------------------------------------------------------------------
(* DtsxParser._parse_error_handling, _parse_event_handler *)

\* models.EventHandler
EventHandler(name, ref_id, dtsid, event_name, executables, precedence_constraints) ==
    [name |-> name, ref_id |-> ref_id, dtsid |-> dtsid, event_name |-> event_name,
     executables |-> executables, precedence_constraints |-> precedence_constraints]

\* models.ErrorHandlingStrategy, the fields left at their defaults included
ErrorHandlingStrategy(event_handlers, logging_mode, logged_events) ==
    [event_handlers |-> event_handlers, error_outputs |-> <<>>,
     fail_package_on_failure |-> TRUE, max_error_count |-> 1,
     logging_mode |-> logging_mode, logged_events |-> logged_events]

\* for child in elem: the tasks of an Executables child, else the constraints
\* of a PrecedenceConstraints child. acc is [executables, constraints, exc]
RECURSIVE HandlerChildLoop(_, _)
HandlerChildLoop(children, acc) ==
    IF children = <<>> \/ acc.exc # "none" THEN acc
    ELSE IF Contains("Executables", Head(children).tag)
    THEN HandlerChildLoop(Tail(children),
             [acc EXCEPT !.executables = @ \o TasksOf(Head(children).children)])
    ELSE IF Contains("PrecedenceConstraints", Head(children).tag)
    THEN LET With(c) == [acc EXCEPT !.constraints = c.val, !.exc = c.exc]
         IN  HandlerChildLoop(Tail(children),
                 With(ConstraintLoop(Head(children).children,
                                     [val |-> acc.constraints, exc |-> "none"])))
    ELSE HandlerChildLoop(Tail(children), acc)

\* _parse_event_handler(elem): [val, exc]
ParseEventHandler(elem) ==
    LET Built(acc) ==
            IF acc.exc # "none" THEN [val |-> None, exc |-> acc.exc]
            ELSE [val |-> EventHandler(GetAttr(elem, "ObjectName", PyStr(""))[2],
                                       GetAttr(elem, "refId", PyStr(""))[2],
                                       GetAttr(elem, "DTSID", PyStr(""))[2],
                                       GetAttr(elem, "EventName", PyStr(""))[2],
                                       acc.executables, acc.constraints),
                  exc |-> "none"]
    IN  Built(HandlerChildLoop(elem.children,
                  [executables |-> <<>>, constraints |-> <<>>, exc |-> "none"]))

\* for handler in elem: if 'EventHandler' in handler.tag. acc is [val, exc]
RECURSIVE HandlerLoop(_, _)
HandlerLoop(children, acc) ==
    IF children = <<>> \/ acc.exc # "none" THEN acc
    ELSE IF Contains("EventHandler", Head(children).tag)
    THEN LET Appended(eh) ==
                 IF eh.exc # "none" THEN [acc EXCEPT !.exc = eh.exc]
                 ELSE [acc EXCEPT !.val = Append(@, eh.val)]
         IN  HandlerLoop(Tail(children), Appended(ParseEventHandler(Head(children))))
    ELSE HandlerLoop(Tail(children), acc)

\* for elem in self.root.iter(): if 'EventHandlers' in elem.tag
RECURSIVE EventHandlersLoop(_, _)
EventHandlersLoop(elems, acc) ==
    IF elems = <<>> \/ acc.exc # "none" THEN acc
    ELSE IF Contains("EventHandlers", Head(elems).tag)
    THEN EventHandlersLoop(Tail(elems), HandlerLoop(Head(elems).children, acc))
    ELSE EventHandlersLoop(Tail(elems), acc)

\* for event in child: if 'EventToLog' in event.tag
RECURSIVE EventsToLog(_)
EventsToLog(events) ==
    IF events = <<>> THEN <<>>
    ELSE IF Contains("EventToLog", Head(events).tag)
    THEN <<Head(events).text>> \o EventsToLog(Tail(events))
    ELSE EventsToLog(Tail(events))

\* for child in elem: LoggingMode, else EventFilter. acc is [mode, events]
RECURSIVE LoggingChildLoop(_, _)
LoggingChildLoop(children, acc) ==
    IF children = <<>> THEN acc
    ELSE IF Contains("LoggingMode", Head(children).tag)
    THEN LoggingChildLoop(Tail(children), [acc EXCEPT !.mode = Head(children).text])
    ELSE IF Contains("EventFilter", Head(children).tag)
    THEN LoggingChildLoop(Tail(children),
             [acc EXCEPT !.events = @ \o EventsToLog(Head(children).children)])
    ELSE LoggingChildLoop(Tail(children), acc)

\* for elem in self.root.iter(): if 'LoggingOptions' in elem.tag
RECURSIVE LoggingLoop(_, _)
LoggingLoop(elems, acc) ==
    IF elems = <<>> THEN acc
    ELSE IF Contains("LoggingOptions", Head(elems).tag)
    THEN LoggingLoop(Tail(elems), LoggingChildLoop(Head(elems).children, acc))
    ELSE LoggingLoop(Tail(elems), acc)

\* _parse_error_handling(): [val, exc]
ParseErrorHandling(r) ==
    LET Built(handlers, logging) ==
            IF handlers.exc # "none" THEN [val |-> None, exc |-> handlers.exc]
            ELSE [val |-> ErrorHandlingStrategy(handlers.val, logging.mode, logging.events),
                  exc |-> "none"]
    IN  Built(EventHandlersLoop(Iter(r), [val |-> <<>>, exc |-> "none"]),
              LoggingLoop(Iter(r), [mode |-> None, events |-> <<>>]))

-----------------------------------------------------------------------------
(* re.findall for the patterns of _extract_database_objects *)

\* \w for the ASCII range, \w with the dot
WordChars ==
    {Char(UpperLetters, i) : i \in 1..26} \cup {Char(LowerLetters, i) : i \in 1..26}
        \cup Digits \cup {"_"}

\* One item of a pattern: a character class with its quantifier, or a
\* literal word (lower case here, matched under re.IGNORECASE)
One(chars) == [chars |-> chars, word |-> "", lo |-> 1, many |-> FALSE]
Opt(chars) == [chars |-> chars, word |-> "", lo |-> 0, many |-> FALSE]
Plus(chars) == [chars |-> chars, word |-> "", lo |-> 1, many |-> TRUE]
Star(chars) == [chars |-> chars, word |-> "", lo |-> 0, many |-> TRUE]
Literal(word) == [chars |-> {}, word |-> word, lo |-> 1, many |-> FALSE]

\* \[?[\w\.]+\]?\.\[?  and the pattern of a qualified name
QualifiedPrefix == <<Opt({"["}), Plus(WordChars \cup {"."}), Opt({"]"}), One({"."}), Opt({"["})>>
ObjectName == QualifiedPrefix \o <<Plus(WordChars), Opt({"]"})>>

\* A pattern with its one group, the items first..last
Pattern(before, group, after) ==
    [items |-> before \o group \o after,
     first |-> Len(before) + 1, last |-> Len(before) + Len(group)]

\* patterns['table'], patterns['procedure'], patterns['function'], in the
\* order the loops try them: the alternatives of one re.findall call, the
\* object_type, the prefix of the key and the usage ("" for the statement's)
PatternEntries ==
    LET After(keyword) == Pattern(keyword \o <<Plus(Whitespace)>>, ObjectName, <<>>)
        Table(keyword) ==
            [alts |-> <<After(keyword)>>, object_type |-> "Table", prefix |-> "",
             usage |-> ""]
    IN  << Table(<<Literal("from")>>), Table(<<Literal("into")>>),
           Table(<<Literal("update")>>), Table(<<Literal("join")>>),
           Table(<<Literal("insert"), Plus(Whitespace), Literal("into")>>),
           [alts |-> <<After(<<Literal("execute")>>), After(<<Literal("exec")>>)>>,
            object_type |-> "StoredProcedure", prefix |-> "proc:", usage |-> "Execute"],
           [alts |-> <<Pattern(<<>>,
                               QualifiedPrefix
                                   \o <<Literal("fn_"), Plus(WordChars), Opt({"]"})>>,
                               <<Star(Whitespace), One({"("})>>)>>,
            object_type |-> "Function", prefix |-> "func:", usage |-> "Reference"] >>

\* How many characters the item may take at position i: the length of its
\* word when the word stands there, else any count from lo up to the run of
\* characters of its class (one at most for an item that does not repeat)
ItemCounts(s, i, item) ==
    IF item.word # ""
    THEN IF /\ i + Len(item.word) - 1 <= Len(s)
            /\ \A k \in 1..Len(item.word) :
                   LowerChar(Char(s, i + k - 1)) = Char(item.word, k)
         THEN {Len(item.word)} ELSE {}
    ELSE { n \in item.lo..(IF item.many THEN Len(s) - i + 1 ELSE 1) :
             \A k \in 1..n : i + k - 1 <= Len(s) /\ Char(s, i + k - 1) \in item.chars }

\* The match of the items at position i: the positions where each item starts
\* and where the match ends, or <<>>.  A repetition is tried longest first, so
\* the first item takes the greatest count with which the rest matches
RECURSIVE MatchFrom(_, _, _)
MatchFrom(s, i, items) ==
    IF items = <<>> THEN <<i>>
    ELSE LET Longest(matching) ==
                 IF matching = {} THEN <<>>
                 ELSE <<i>> \o (CHOOSE r \in matching :
                                   \A q \in matching : q[1] <= r[1])[2]
             Matching(tried) == Longest({ r \in tried : r[2] # <<>> })
         IN  Matching({ <<n, MatchFrom(s, i + n, Tail(items))>> :
                          n \in ItemCounts(s, i, Head(items)) })

\* The first alternative matching at position i: <<group, end>>, or <<>>
RECURSIVE FirstMatch(_, _, _)
FirstMatch(s, i, alts) ==
    IF alts = <<>> THEN <<>>
    ELSE LET Found(m) ==
                 IF m = <<>> THEN FirstMatch(s, i, Tail(alts))
                 ELSE <<SubSeq(s, m[Head(alts).first], m[Head(alts).last + 1] - 1),
                        m[Len(m)]>>
         IN  Found(MatchFrom(s, i, Head(alts).items))

\* re.findall(pattern, s, re.IGNORECASE) from position i on: the groups of the
\* matches, left to right, no two overlapping
RECURSIVE FindAll(_, _, _)
FindAll(s, i, alts) ==
    LET Emit(m) == <<m[1]>> \o FindAll(s, m[2], alts)
        Leftmost(starts) ==
            IF starts = {} THEN <<>>
            ELSE Emit(FirstMatch(s, CHOOSE j \in starts : \A k \in starts : j <= k, alts))
    IN  Leftmost({ j \in i..Len(s) : FirstMatch(s, j, alts) # <<>> })

-----------------------------------------------------------------------------
(* DtsxParser._extract_database_objects, _extract_alerts *)

\* models.DatabaseObject
DatabaseObject(name, object_type, schema, usage) ==
    [name |-> name, object_type |-> object_type, schema |-> schema,
     database |-> None, connection |-> None, usage |-> usage]

\* models.Alert
Alert(name, alert_type, recipients, priority, category) ==
    [name |-> name, alert_type |-> alert_type, condition |-> None,
     recipients |-> recipients, priority |-> priority, category |-> category]

\* s.strip('[]')
RECURSIVE StripBrackets(_)
StripBrackets(s) ==
    IF s # "" /\ Char(s, 1) \in {"[", "]"} THEN StripBrackets(Tail(s))
    ELSE IF s # "" /\ Char(s, Len(s)) \in {"[", "]"}
    THEN StripBrackets(SubSeq(s, 1, Len(s) - 1))
    ELSE s

\* s.split('.')[0] and, for a str with a dot, s.split('.')[1]
FirstPart(s) ==
    IF Contains(".", s)
    THEN SubSeq(s, 1, (CHOOSE i \in 1..Len(s) :
                          Char(s, i) = "." /\ \A j \in 1..(i - 1) : Char(s, j) # ".") - 1)
    ELSE s
SecondPart(s) == FirstPart(SubSeq(s, Len(FirstPart(s)) + 2, Len(s)))

\* name = text.strip('[]'), then schema and object name around the first dot,
\* the schema 'dbo' for a name without a dot
SchemaAndName(text) ==
    LET Split(name) ==
            IF Contains(".", name)
            THEN [schema |-> StripBrackets(FirstPart(name)),
                  name |-> StripBrackets(SecondPart(name))]
            ELSE [schema |-> "dbo", name |-> name]
    IN  Split(StripBrackets(text))

\* for task in stage.tasks, over every stage: the (sql, source_name, usage)
\* of the tasks with a statement
RECURSIVE TaskStatements(_)
TaskStatements(tasks) ==
    IF tasks = <<>> THEN <<>>
    ELSE IF Truthy(TaskGet(Head(tasks), "sql_statement"))
    THEN << <<TaskGet(Head(tasks), "sql_statement")[2], Head(tasks).name, "Task">> >>
             \o TaskStatements(Tail(tasks))
    ELSE TaskStatements(Tail(tasks))

\* The lists of the records given, one after the other
RECURSIVE Chain(_, _)
Chain(records, field) ==
    IF records = <<>> THEN <<>>
    ELSE Head(records)[field] \o Chain(Tail(records), field)

\* for comp in dft.components, over every task: the (sql, source_name, usage)
\* of the components with a SQL command
RECURSIVE ComponentStatements(_)
ComponentStatements(comps) ==
    IF comps = <<>> THEN <<>>
    ELSE IF Truthy(Head(comps).sql_command)
    THEN << <<Head(comps).sql_command[2], Head(comps).name, Head(comps).component_type>> >>
             \o ComponentStatements(Tail(comps))
    ELSE ComponentStatements(Tail(comps))

\* What one pass of "if key not in seen" is given: the text found, the prefix
\* of its key, the kind of object and its usage
Candidate(text, prefix, object_type, usage) ==
    [text |-> text, prefix |-> prefix, object_type |-> object_type, usage |-> usage]

\* for comp in dft.components: if comp.table_name
RECURSIVE ComponentTables(_)
ComponentTables(comps) ==
    IF comps = <<>> THEN <<>>
    ELSE IF Truthy(Head(comps).table_name)
    THEN <<Candidate(Head(comps).table_name[2], "", "Table", Head(comps).component_type)>>
             \o ComponentTables(Tail(comps))
    ELSE ComponentTables(Tail(comps))

\* for pattern in patterns[...], the three kinds in turn: for match in matches
RECURSIVE PatternMatches(_, _)
PatternMatches(entries, statement) ==
    IF entries = <<>> THEN <<>>
    ELSE LET Found(matches) ==
                 [k \in 1..Len(matches) |->
                     Candidate(matches[k], Head(entries).prefix, Head(entries).object_type,
                               IF Head(entries).usage = "" THEN statement[3]
                               ELSE Head(entries).usage)]
         IN  Found(FindAll(statement[1], 1, Head(entries).alts))
                 \o PatternMatches(Tail(entries), statement)

\* for sql, source_name, usage in sql_statements
RECURSIVE StatementMatches(_)
StatementMatches(statements) ==
    IF statements = <<>> THEN <<>>
    ELSE PatternMatches(PatternEntries, Head(statements))
             \o StatementMatches(Tail(statements))

\* if key not in seen: seen.add(key); objects.append(...), for the candidates
\* in the order the loops meet them: an object for each candidate whose key
\* no earlier candidate has
NewObjects(candidates) ==
    LET Named(k) == SchemaAndName(candidates[k].text)
        Key(k) == candidates[k].prefix \o Named(k).schema \o "." \o Named(k).name
        Listed(keys) ==
            LET first == { k \in 1..Len(keys) : \A j \in 1..(k - 1) : keys[j] # keys[k] }
            IN  [n \in 1..Cardinality(first) |->
                    LET k == CHOOSE k \in first : Cardinality({ j \in first : j <= k }) = n
                    IN  DatabaseObject(Named(k).name, candidates[k].object_type,
                                       Named(k).schema, candidates[k].usage)]
    IN  Listed([k \in 1..Len(candidates) |-> Key(k)])

\* _extract_database_objects(), self.package being pkg: the target tables of
\* the components, then what the statements of the tasks and of the
\* components name; nothing when pkg is None
ExtractDatabaseObjects(pkg) ==
    IF pkg = None THEN <<>>
    ELSE NewObjects(
             ComponentTables(Chain(pkg.data_flow_tasks, "components"))
                 \o StatementMatches(
                        TaskStatements(Chain(pkg.control_flow_stages, "tasks"))
                            \o ComponentStatements(Chain(pkg.data_flow_tasks, "components"))))

\* for task in ...: if 'SendMailTask' in task.get('type', '')
RECURSIVE TaskAlerts(_, _, _, _)
TaskAlerts(tasks, alert_type, priority, category) ==
    IF tasks = <<>> THEN <<>>
    ELSE IF Contains("SendMailTask", Head(tasks).type)
    THEN <<Alert(Head(tasks).name, alert_type, TaskGet(Head(tasks), "to_address"),
                 priority, category)>>
             \o TaskAlerts(Tail(tasks), alert_type, priority, category)
    ELSE TaskAlerts(Tail(tasks), alert_type, priority, category)

\* for handler in self.package.error_handling.event_handlers
RECURSIVE HandlerAlerts(_)
HandlerAlerts(handlers) ==
    IF handlers = <<>> THEN <<>>
    ELSE TaskAlerts(Head(handlers).executables, Head(handlers).event_name,
                    IF Contains("Error", Head(handlers).event_name) THEN "High" ELSE "Normal",
                    IF Contains("Error", Head(handlers).event_name) THEN "Error" ELSE "Warning")
             \o HandlerAlerts(Tail(handlers))

\* _extract_alerts(), self.package being pkg
ExtractAlerts(pkg) ==
    IF pkg = None THEN <<>>
    ELSE (IF pkg.error_handling # None
          THEN HandlerAlerts(pkg.error_handling.event_handlers) ELSE <<>>)
         \o TaskAlerts(Chain(pkg.control_flow_stages, "tasks"),
                       "Completion", "Normal", "Notification")

-----------------------------------------------------------------------------
(* DtsxParser.parse *)

\* models.DtsxPackage: the fields built from the variables, the parameters,
\* the control flow, the data flows, the event handlers and what is mined
\* from them
DtsxPackage(variables, parameters, control_flow_stages, data_flow_tasks, error_handling, database_objects, alerts, raw_precedence_constraints) ==
    [variables |-> variables, parameters |-> parameters,
     control_flow_stages |-> control_flow_stages,
     data_flow_tasks |-> data_flow_tasks,
     error_handling |-> error_handling,
     database_objects |-> database_objects,
     alerts |-> alerts,
     raw_precedence_constraints |-> raw_precedence_constraints]

\* parse() on the document r, self.package being pkg when it starts: the
\* steps in call order; the first exception leaves parse().  The database
\* objects and the alerts are extracted from self.package, which is assigned
\* only after them.  [package, stages, constraints, exc]
ParsePackage(r, pkg) ==
    LET Raised(cf, e) ==
            [package |-> None, stages |-> cf.stages, constraints |-> cf.constraints,
             exc |-> e]
        NoControlFlow == [stages |-> <<>>, constraints |-> <<>>]
        Parsed(variables, parameters, cf, data_flow_tasks, error_handling) ==
            IF variables.exc # "none" THEN Raised(NoControlFlow, variables.exc)
            ELSE IF parameters.exc # "none" THEN Raised(NoControlFlow, parameters.exc)
            ELSE IF cf.exc # "none" THEN Raised(cf, cf.exc)
            ELSE IF data_flow_tasks.exc # "none" THEN Raised(cf, data_flow_tasks.exc)
            ELSE IF error_handling.exc # "none" THEN Raised(cf, error_handling.exc)
            ELSE [package |-> DtsxPackage(variables.val, parameters.val, cf.stages,
                                          data_flow_tasks.val, error_handling.val,
                                          ExtractDatabaseObjects(pkg),
                                          ExtractAlerts(pkg),
                                          cf.constraints),
                  stages |-> cf.stages, constraints |-> cf.constraints, exc |-> "none"]
    IN  Parsed(ParseVariables(r), ParseParameters(r), ParseControlFlow(r),
               ParseDataFlowTasks(r), ParseErrorHandling(r))

-----------------------------------------------------------------------------
(* DiagramGenerator.generate_execution_order_diagram *)

\* task.get('name', 'Unknown')
TaskName(task) == IF "name" \in DOMAIN task THEN task.name ELSE "Unknown"

\* The lines of one stage: its step, its type, its description, its
\* condition, its tasks and an empty line
StepLines(stage, current_order) ==
    << "Step " \o ToString(current_order) \o ": " \o stage.name,
       "         Type: " \o stage.stage_type >>
    \o (IF Truthy(stage.description)
        THEN << "         Description: " \o stage.description[2] >> ELSE <<>>)
    \o (IF Truthy(stage.condition)
        THEN << "         Condition: "
                \o Replace(Replace(stage.condition[2], "@[User::", ""), "]", "") >>
        ELSE <<>>)
    \o (IF stage.tasks # <<>>
        THEN << "         Tasks:" >>
             \o [k \in 1..Len(stage.tasks) |-> "           - " \o TaskName(stage.tasks[k])]
        ELSE <<>>)
    \o << "" >>

\* for stage in self.package.control_flow_stages: ... current_order += 1
RECURSIVE Steps(_, _)
Steps(stage_list, current_order) ==
    IF stage_list = <<>> THEN <<>>
    ELSE StepLines(Head(stage_list), current_order)
         \o Steps(Tail(stage_list), current_order + 1)

\* A plausible slip: the stages without a predecessor are listed first (the
\* start_stages the method collects and never uses)
GenerateExecutionOrderDiagramStartFirst(pkg) ==
    Join(<< Repeat("=", 60), " EXECUTION ORDER", Repeat("=", 60), "" >>
         \o Steps(SelectSeq(pkg.control_flow_stages, LAMBDA s : s.precedence_from = <<>>)
                  \o SelectSeq(pkg.control_flow_stages, LAMBDA s : s.precedence_from # <<>>),
                  1))

\* generate_execution_order_diagram()
GenerateExecutionOrderDiagram(pkg) ==
    Join(<< Repeat("=", 60), " EXECUTION ORDER", Repeat("=", 60), "" >>
         \o Steps(pkg.control_flow_stages, 1))

-----------------------------------------------------------------------------
(* DiagramGenerator.generate_data_flow_diagram *)

\* for comp in components: if comp.ref_id in ref_id or comp.name in ref_id
RECURSIVE DirectMatch(_, _)
DirectMatch(ref_id, components) ==
    IF components = <<>> THEN None
    ELSE IF Contains(Head(components).ref_id, ref_id) \/ Contains(Head(components).name, ref_id)
    THEN PyStr(Head(components).name)
    ELSE DirectMatch(ref_id, Tail(components))

\* for comp in components: if comp_part == comp.name or comp_part in comp.ref_id
RECURSIVE PartialMatch(_, _)
PartialMatch(comp_part, components) ==
    IF components = <<>> THEN None
    ELSE IF comp_part = Head(components).name \/ Contains(comp_part, Head(components).ref_id)
    THEN PyStr(Head(components).name)
    ELSE PartialMatch(comp_part, Tail(components))

\* A plausible slip: the partial match is tried for a reference without a
\* backslash too
ExtractComponentNameAnyRef(ref_id, components) ==
    IF DirectMatch(ref_id, components) # None THEN DirectMatch(ref_id, components)
    ELSE PartialMatch(FirstPart(LastSegment(ref_id)), components)

\* _extract_component_name: the name of the component a path reference
\* names, None when no component matches
ExtractComponentName(ref_id, components) ==
    IF DirectMatch(ref_id, components) # None THEN DirectMatch(ref_id, components)
    ELSE IF Contains("\\", ref_id)
    THEN PartialMatch(FirstPart(LastSegment(ref_id)), components)
    ELSE None

-----------------------------------------------------------------------------
(* DiagramGenerator._sanitize_id, _generate_mermaid_flowchart *)

AsciiAlnum ==
    { Char(UpperLetters, i) : i \in 1..26 } \cup { Char(LowerLetters, i) : i \in 1..26 }
    \cup Digits

\* The characters beyond ASCII for which str.isalnum() is true, among the
\* characters of the names rendered here; "×" is one for which it is false
OtherAlnum == {"é", "²", "ª", "½"}

\* c.isalnum() for one character
IsAlnum(c) == c \in AsciiAlnum \cup OtherAlnum

\* ''.join(c for c in s if c.isalnum() or c == '_')
RECURSIVE KeepIdChars(_)
KeepIdChars(s) ==
    IF s = "" THEN ""
    ELSE (IF IsAlnum(Char(s, 1)) \/ Char(s, 1) = "_" THEN Char(s, 1) ELSE "")
         \o KeepIdChars(Tail(s))

\* _sanitize_id(name)
SanitizeId(name) ==
    KeepIdChars(Replace(Replace(Replace(name, " ", "_"), "-", "_"), ".", "_"))

\* component_types.get(comp, 'default')
TypeOf(component_types, comp) ==
    IF comp \in DOMAIN component_types THEN component_types[comp] ELSE "default"

\* A plausible slip: every node is drawn as a rectangle
NodeLineRectangle(comp, component_types) ==
    "        " \o SanitizeId(comp) \o "[\"" \o comp \o "\"]"

\* The node line of one component: the shape by comp_type
NodeLine(comp, component_types) ==
    IF TypeOf(component_types, comp) = "Source"
    THEN "        " \o SanitizeId(comp) \o "[(\"" \o comp \o "\")]"
    ELSE IF TypeOf(component_types, comp) = "Destination"
    THEN "        " \o SanitizeId(comp) \o "[[\"" \o comp \o "\"]]"
    ELSE IF Contains("Transform", TypeOf(component_types, comp))
    THEN "        " \o SanitizeId(comp) \o "{\"" \o comp \o "\"}"
    ELSE "        " \o SanitizeId(comp) \o "[\"" \o comp \o "\"]"

\* The edge line of one (source, dest, label) path
EdgeLine(path) ==
    IF path[3] # ""
    THEN "    " \o SanitizeId(path[1]) \o " -->|" \o path[3] \o "| " \o SanitizeId(path[2])
    ELSE "    " \o SanitizeId(path[1]) \o " --> " \o SanitizeId(path[2])

\* The class lines: one for a Source, Destination or Transform, none otherwise
RECURSIVE ClassLines(_, _)
ClassLines(components, component_types) ==
    IF components = <<>> THEN <<>>
    ELSE (IF TypeOf(component_types, Head(components)) = "Source"
          THEN << "    class " \o SanitizeId(Head(components)) \o " source" >>
          ELSE IF TypeOf(component_types, Head(components)) = "Destination"
          THEN << "    class " \o SanitizeId(Head(components)) \o " destination" >>
          ELSE IF Contains("Transform", TypeOf(component_types, Head(components)))
          THEN << "    class " \o SanitizeId(Head(components)) \o " transform" >>
          ELSE <<>>)
         \o ClassLines(Tail(components), component_types)

\* A plausible slip: a component listed again is not drawn again
RECURSIVE DistinctNames(_)
DistinctNames(components) ==
    IF components = <<>> THEN <<>>
    ELSE IF InList(components[Len(components)], SubSeq(components, 1, Len(components) - 1))
    THEN DistinctNames(SubSeq(components, 1, Len(components) - 1))
    ELSE Append(DistinctNames(SubSeq(components, 1, Len(components) - 1)),
                components[Len(components)])
NodeLinesOncePerName(components, component_types) ==
    [k \in 1..Len(DistinctNames(components)) |->
        NodeLine(DistinctNames(components)[k], component_types)]

\* for comp in components: the node line
NodeLines(components, component_types) ==
    [k \in 1..Len(components) |-> NodeLine(components[k], component_types)]

\* _generate_mermaid_flowchart(title, components, paths, direction,
\* component_types), component_types a dict (the empty dict for None)
GenerateMermaidFlowchart(title, components, paths, direction, component_types) ==
    Join(<< "---", "title: " \o title, "---", "flowchart " \o direction,
            "    subgraph " \o SanitizeId(title) \o "[\"" \o title \o "\"]" >>
         \o NodeLines(components, component_types)
         \o << "    end", "" >>
         \o [k \in 1..Len(paths) |-> EdgeLine(paths[k])]
         \o << "", "    %% Styling",
               "    classDef source fill:#e1f5fe,stroke:#01579b",
               "    classDef destination fill:#e8f5e9,stroke:#1b5e20",
               "    classDef transform fill:#fff3e0,stroke:#e65100" >>
         \o ClassLines(components, component_types))

-----------------------------------------------------------------------------
(* DiagramGenerator._generate_ascii_data_flow *)

\* s[:n]
Take(s, n) == SubSeq(s, 1, IF Len(s) < n THEN Len(s) ELSE n)

\* [c for c in dft.components if c.component_type == t]
OfType(components, t) == SelectSeq(components, LAMBDA c : c.component_type = t)

\* The lines of the sources
RECURSIVE SourceLines(_)
SourceLines(sources) ==
    IF sources = <<>> THEN <<>>
    ELSE << "    [(" \o Head(sources).name \o ")]" >>
         \o (IF Truthy(Head(sources).sql_command)
             THEN << "        SQL: "
                     \o Replace(Take(Strip(Head(sources).sql_command[2]), 50), "\n", " ")
                     \o "..." >>
             ELSE <<>>)
         \o SourceLines(Tail(sources))

\* symbol, by the component class
Symbol(component_class) ==
    IF Contains("DerivedColumn", component_class) THEN "{DER}"
    ELSE IF Contains("ConditionalSplit", component_class) THEN "{SPLIT}"
    ELSE IF Contains("Lookup", component_class) THEN "{LKP}"
    ELSE IF Contains("Multicast", component_class) THEN "{MCT}"
    ELSE IF Contains("RowCount", component_class) THEN "{RC}"
    ELSE IF Contains("DataConvert", component_class) THEN "{DCV}"
    ELSE "{TRF}"

\* for col in cols: if col.expression: the line of the derived column
RECURSIVE DerivedColumnLines(_)
DerivedColumnLines(cols) ==
    IF cols = <<>> THEN <<>>
    ELSE (IF Truthy(Head(cols).expression)
          THEN << "          -> " \o Head(cols).name \o ": "
                  \o Take(Head(cols).expression[2], 40) \o "..." >>
          ELSE <<>>)
         \o DerivedColumnLines(Tail(cols))

\* for cond in conds: the line of an output with an expression or of a
\* default output
RECURSIVE ConditionalOutputLines(_)
ConditionalOutputLines(conds) ==
    IF conds = <<>> THEN <<>>
    ELSE (IF Truthy(Head(conds).expression)
          THEN << "          |-> [" \o Head(conds).name \o "]: " \o Head(conds).expression[2] >>
          ELSE IF Truthy(Head(conds).is_default)
          THEN << "          |-> [" \o Head(conds).name \o "]: (Default)" >>
          ELSE <<>>)
         \o ConditionalOutputLines(Tail(conds))

\* The lines of the transforms, an arrow between two of them
RECURSIVE TransformLines(_)
TransformLines(transforms) ==
    IF transforms = <<>> THEN <<>>
    ELSE << "    " \o Symbol(Head(transforms).component_class) \o " " \o Head(transforms).name >>
         \o DerivedColumnLines(SubSeq(Head(transforms).output_columns, 1,
                IF Len(Head(transforms).output_columns) < 3
                THEN Len(Head(transforms).output_columns) ELSE 3))
         \o ConditionalOutputLines(Head(transforms).conditional_outputs)
         \o (IF Len(transforms) > 1 THEN << "        |", "        V" >> ELSE <<>>)
         \o TransformLines(Tail(transforms))

\* The lines of the destinations
RECURSIVE DestinationLines(_)
DestinationLines(destinations) ==
    IF destinations = <<>> THEN <<>>
    ELSE << "    [[" \o Head(destinations).name \o "]]",
            "        -> " \o (IF Truthy(Head(destinations).table_name)
                              THEN Head(destinations).table_name[2]
                              ELSE "Unknown Table") >>
         \o DestinationLines(Tail(destinations))

\* _extract_component_name(ref_id, components) or "?"
NameOrUnknown(ref_id, components) ==
    IF Truthy(ExtractComponentName(ref_id, components))
    THEN ExtractComponentName(ref_id, components)[2]
    ELSE "?"

\* A plausible slip: a path with an unresolved end is left out of the summary
PathLinesResolvedOnly(dft) ==
    LET resolved == SelectSeq(dft.paths, LAMBDA p :
                        /\ Truthy(ExtractComponentName(p.source_ref_id, dft.components))
                        /\ Truthy(ExtractComponentName(p.destination_ref_id, dft.components)))
    IN  [k \in 1..Len(resolved) |->
            "    " \o NameOrUnknown(resolved[k].source_ref_id, dft.components) \o " --> "
            \o NameOrUnknown(resolved[k].destination_ref_id, dft.components)]

\* for path in dft.paths: the line of the path summary
PathLines(dft) ==
    [k \in 1..Len(dft.paths) |->
        "    " \o NameOrUnknown(dft.paths[k].source_ref_id, dft.components) \o " --> "
        \o NameOrUnknown(dft.paths[k].destination_ref_id, dft.components)]

\* _generate_ascii_data_flow(dft)
GenerateAsciiDataFlow(dft) ==
    Join(<< "======================================================================", " DATA FLOW: " \o dft.name, "======================================================================", "" >>
         \o (IF OfType(dft.components, "Source") # <<>>
             THEN << "SOURCES:" >> \o SourceLines(OfType(dft.components, "Source"))
                  \o << "        |", "        V", "" >>
             ELSE <<>>)
         \o (IF OfType(dft.components, "Transform") # <<>>
             THEN << "TRANSFORMATIONS:" >> \o TransformLines(OfType(dft.components, "Transform"))
                  \o << "        |", "        V", "" >>
             ELSE <<>>)
         \o (IF OfType(dft.components, "Destination") # <<>>
             THEN << "DESTINATIONS:" >> \o DestinationLines(OfType(dft.components, "Destination"))
                  \o << "" >>
             ELSE <<>>)
         \o << "----------------------------------------------------------------------", "DATA PATHS:" >>
         \o PathLines(dft))

-----------------------------------------------------------------------------
(* DiagramGenerator.generate_data_flow_diagram, _get_component_types *)

\* models.DataFlowDiagram
DataFlowDiagram(name, components, paths, mermaid_code, ascii_diagram) ==
    [name |-> name, components |-> components, paths |-> paths,
     mermaid_code |-> mermaid_code, ascii_diagram |-> ascii_diagram]

\* _get_component_types(dft): {comp.name: comp.component_type}, the last
\* component of a name giving its type
GetComponentTypes(dft) ==
    [name \in { dft.components[k].name : k \in 1..Len(dft.components) } |->
        dft.components[CHOOSE k \in 1..Len(dft.components) :
            /\ dft.components[k].name = name
            /\ \A j \in (k + 1)..Len(dft.components) : dft.components[j].name # name
        ].component_type]

\* for path in dft.paths: a (source, dest, label) tuple if both ends resolve
RECURSIVE DiagramPaths(_, _)
DiagramPaths(paths, components) ==
    IF paths = <<>> THEN <<>>
    ELSE (IF /\ Truthy(ExtractComponentName(Head(paths).source_ref_id, components))
             /\ Truthy(ExtractComponentName(Head(paths).destination_ref_id, components))
          THEN << << ExtractComponentName(Head(paths).source_ref_id, components)[2],
                     ExtractComponentName(Head(paths).destination_ref_id, components)[2],
                     Head(paths).name >> >>
          ELSE <<>>)
         \o DiagramPaths(Tail(paths), components)

\* A plausible slip: the call takes the components it has drawn off the task
GenerateDataFlowDiagramConsuming(dft) ==
    [val |-> DataFlowDiagram(dft.name, <<>>, <<>>, None, None),
     dft |-> [dft EXCEPT !.components = <<>>]]

\* generate_data_flow_diagram(dft): val the DataFlowDiagram returned, dft the
\* task as the call leaves it (no field of it is assigned)
GenerateDataFlowDiagram(dft) ==
    LET components == [k \in 1..Len(dft.components) |-> dft.components[k].name]
        Built(paths) ==
            DataFlowDiagram(dft.name, components, paths,
                PyStr(GenerateMermaidFlowchart(dft.name, components, paths, "TB",
                                               GetComponentTypes(dft))),
                PyStr(GenerateAsciiDataFlow(dft)))
    IN  [val |-> Built(DiagramPaths(dft.paths, dft.components)), dft |-> dft]

-----------------------------------------------------------------------------
(* DiagramGenerator._generate_ascii_control_flow *)

\* max(len(stage.name) for stage in stages) if stages else 20
RECURSIVE LongestName(_)
LongestName(stage_list) ==
    IF stage_list = <<>> THEN 0
    ELSE LET rest == LongestName(Tail(stage_list))
         IN  IF Len(Head(stage_list).name) > rest THEN Len(Head(stage_list).name) ELSE rest

MaxWidth(stage_list) == IF stage_list = <<>> THEN 20 ELSE LongestName(stage_list)

\* The four rows of a stage's box
StageBox(stage, box_width) ==
    << "    +" \o Repeat("-", box_width) \o "+",
       "    |" \o Center(stage.name, box_width) \o "|",
       "    |" \o Center("(" \o stage.stage_type \o ")", box_width) \o "|",
       "    +" \o Repeat("-", box_width) \o "+" >>

\* cond_text of a condition
ConditionText(condition) ==
    Replace(Replace(Replace(condition, "@[User::", ""), "]", ""), "==", "=")

\* The arrow drawn below a box that is not the last, with the condition of
\* the next stage
Arrow(next_stage, box_width) ==
    << "    " \o Repeat(" ", (box_width \div 2) + 1) \o "|" >>
    \o (IF Truthy(next_stage.condition)
        THEN << "        [" \o ConditionText(next_stage.condition[2]) \o "]" >>
        ELSE <<>>)
    \o << "    " \o Repeat(" ", (box_width \div 2) + 1) \o "V", "" >>

\* for i, stage in enumerate(stages)
RECURSIVE StageBoxes(_, _)
StageBoxes(stage_list, box_width) ==
    IF stage_list = <<>> THEN <<>>
    ELSE StageBox(Head(stage_list), box_width)
         \o (IF Len(stage_list) > 1 THEN Arrow(stage_list[2], box_width) ELSE <<>>)
         \o StageBoxes(Tail(stage_list), box_width)

\* _generate_ascii_control_flow()
GenerateAsciiControlFlow(pkg) ==
    Join(<< Repeat("=", 60), " CONTROL FLOW DIAGRAM", Repeat("=", 60), "" >>
         \o StageBoxes(pkg.control_flow_stages, MaxWidth(pkg.control_flow_stages) + 4))

-----------------------------------------------------------------------------
(* DiagramGenerator.generate_control_flow_diagram *)

\* _extract_stage_name
ExtractStageName(ref_id) == LastSegment(ref_id)

\* The edge label of a constraint
ConstraintLabel(c) ==
    IF Truthy(c.expression)
    THEN Replace(Replace(Replace(c.expression[2], "@[User::", ""), "]", ""), "==", "=")
    ELSE ""

\* paths: one (from_name, to_name, label) per raw constraint
ControlFlowPaths(cons) ==
    [k \in 1..Len(cons) |->
        <<ExtractStageName(cons[k].from_ref), ExtractStageName(cons[k].to_ref),
          ConstraintLabel(cons[k])>>]

\* components = [stage.name for stage in self.package.control_flow_stages]
StageNamesOf(pkg) ==
    [k \in 1..Len(pkg.control_flow_stages) |-> pkg.control_flow_stages[k].name]

\* generate_control_flow_diagram(): the DataFlowDiagram returned
ControlFlowDiagram(pkg) ==
    DataFlowDiagram("Control Flow", StageNamesOf(pkg),
                    ControlFlowPaths(pkg.raw_precedence_constraints),
                    PyStr(GenerateMermaidFlowchart(
                              "Control Flow", StageNamesOf(pkg),
                              ControlFlowPaths(pkg.raw_precedence_constraints),
                              "TB", EmptyDict)),
                    PyStr(GenerateAsciiControlFlow(pkg)))

-----------------------------------------------------------------------------
(* DiagramGenerator.generate_routing_logic_diagram *)

\* s.split('.')[-1]: what follows the last dot
LastPart(s) ==
    LET cuts == { i \in 1..Len(s) : Char(s, i) = "." }
    IN  IF cuts = {} THEN s
        ELSE SubSeq(s, (CHOOSE i \in cuts : \A j \in cuts : j <= i) + 1, Len(s))

\* A plausible slip: the expressions are looked at before the default flag
RouteConditionLinesExpressionFirst(cond) ==
    IF Truthy(cond.friendly_expression)
    THEN << "      Condition: " \o cond.friendly_expression[2] >>
    ELSE IF Truthy(cond.expression)
    THEN << "      Condition: " \o cond.expression[2] >>
    ELSE IF Truthy(cond.is_default)
    THEN << "      Condition: DEFAULT (all unmatched rows)" >>
    ELSE <<>>

\* The Condition line of a route
RouteConditionLines(cond) ==
    IF Truthy(cond.is_default)
    THEN << "      Condition: DEFAULT (all unmatched rows)" >>
    ELSE IF Truthy(cond.friendly_expression)
    THEN << "      Condition: " \o cond.friendly_expression[2] >>
    ELSE IF Truthy(cond.expression)
    THEN << "      Condition: " \o cond.expression[2] >>
    ELSE <<>>

\* for path in dft.paths: if cond.name in path.source_ref_id: ... if dest
RECURSIVE RouteDestinationLines(_, _, _)
RouteDestinationLines(paths, cond, dft) ==
    IF paths = <<>> THEN <<>>
    ELSE LET Line(dest) ==
                 IF Truthy(dest) THEN << "      Destination: " \o dest[2] >> ELSE <<>>
         IN  (IF Contains(cond.name, Head(paths).source_ref_id)
              THEN Line(ExtractComponentName(Head(paths).destination_ref_id,
                                             dft.components))
              ELSE <<>>)
             \o RouteDestinationLines(Tail(paths), cond, dft)

\* for i, cond in enumerate(comp.conditional_outputs, 1), from the i-th on
RECURSIVE RouteLines(_, _, _)
RouteLines(conds, i, dft) ==
    IF conds = <<>> THEN <<>>
    ELSE << "    Route " \o ToString(i) \o ": " \o Head(conds).name >>
         \o RouteConditionLines(Head(conds))
         \o RouteDestinationLines(dft.paths, Head(conds), dft)
         \o << "" >>
         \o RouteLines(Tail(conds), i + 1, dft)

\* if comp.conditional_outputs
ConditionalSplitLines(comp, dft) ==
    IF comp.conditional_outputs # <<>>
    THEN << "  Routing Component: " \o comp.name,
            "  Type: " \o LastPart(comp.component_class), "" >>
         \o RouteLines(comp.conditional_outputs, 1, dft)
    ELSE <<>>

\* The line of a path that leaves a Lookup, dest the name its destination
\* resolves to
LookupDestinationLine(path, dest) ==
    IF ~Truthy(dest) THEN <<>>
    ELSE IF Contains("Match", path.name)
    THEN << "      -> Match goes to: " \o dest[2] >>
    ELSE IF Contains("NoMatch", path.name) \/ Contains("No Match", path.name)
    THEN << "      -> No Match goes to: " \o dest[2] >>
    ELSE <<>>

RECURSIVE LookupDestinationLines(_, _, _)
LookupDestinationLines(paths, comp, dft) ==
    IF paths = <<>> THEN <<>>
    ELSE (IF Contains(comp.name, Head(paths).source_ref_id)
          THEN LookupDestinationLine(Head(paths),
                   ExtractComponentName(Head(paths).destination_ref_id, dft.components))
          ELSE <<>>)
         \o LookupDestinationLines(Tail(paths), comp, dft)

\* if 'Lookup' in comp.component_class
LookupLines(comp, dft) ==
    IF Contains("Lookup", comp.component_class)
    THEN << "  Lookup: " \o comp.name,
            "    Match Output: Rows with matching reference data",
            "    No Match Output: Rows without matching reference data" >>
         \o LookupDestinationLines(dft.paths, comp, dft)
         \o << "" >>
    ELSE <<>>

\* The line of a path that leaves a Multicast
MulticastDestinationLine(dest) ==
    IF Truthy(dest) THEN << "      -> " \o dest[2] >> ELSE <<>>

RECURSIVE MulticastDestinationLines(_, _, _)
MulticastDestinationLines(paths, comp, dft) ==
    IF paths = <<>> THEN <<>>
    ELSE (IF Contains(comp.name, Head(paths).source_ref_id)
          THEN MulticastDestinationLine(
                   ExtractComponentName(Head(paths).destination_ref_id, dft.components))
          ELSE <<>>)
         \o MulticastDestinationLines(Tail(paths), comp, dft)

\* if 'Multicast' in comp.component_class
MulticastLines(comp, dft) ==
    IF Contains("Multicast", comp.component_class)
    THEN << "  Multicast: " \o comp.name,
            "    Sends all rows to multiple destinations:" >>
         \o MulticastDestinationLines(dft.paths, comp, dft)
         \o << "" >>
    ELSE <<>>

\* for comp in dft.components
RECURSIVE ComponentRoutingLines(_, _)
ComponentRoutingLines(components, dft) ==
    IF components = <<>> THEN <<>>
    ELSE ConditionalSplitLines(Head(components), dft)
         \o LookupLines(Head(components), dft)
         \o MulticastLines(Head(components), dft)
         \o ComponentRoutingLines(Tail(components), dft)

\* for dft in self.package.data_flow_tasks
RECURSIVE TaskRoutingLines(_)
TaskRoutingLines(tasks) ==
    IF tasks = <<>> THEN <<>>
    ELSE << "Data Flow: " \o Head(tasks).name, Repeat("-", 50), "" >>
         \o ComponentRoutingLines(Head(tasks).components, Head(tasks))
         \o << "" >>
         \o TaskRoutingLines(Tail(tasks))

\* generate_routing_logic_diagram()
GenerateRoutingLogicDiagram(pkg) ==
    Join(<< Repeat("=", 70), " DATA ROUTING LOGIC", Repeat("=", 70), "" >>
         \o TaskRoutingLines(pkg.data_flow_tasks))

-----------------------------------------------------------------------------
(* DiagramGenerator.generate_all_diagrams *)

\* for dft in self.package.data_flow_tasks: generate_data_flow_diagram(dft).
\* [val, dft] of each task, in task order
DataFlowDiagramsOf(tasks) ==
    [k \in 1..Len(tasks) |-> GenerateDataFlowDiagram(tasks[k])]

\* A plausible slip: the tasks are taken off the package as they are drawn
GenerateAllDiagramsConsuming(pkg) ==
    LET Drawn(drawn) ==
            [val |-> << ControlFlowDiagram(pkg) >> \o [k \in 1..Len(drawn) |-> drawn[k].val],
             package |-> [pkg EXCEPT !.data_flow_tasks = <<>>]]
    IN  Drawn(DataFlowDiagramsOf(pkg.data_flow_tasks))

\* generate_all_diagrams(): the list returned and self.package as the call
\* leaves it
GenerateAllDiagrams(pkg) ==
    LET Drawn(drawn) ==
            [val |-> << ControlFlowDiagram(pkg) >> \o [k \in 1..Len(drawn) |-> drawn[k].val],
             package |-> [pkg EXCEPT !.data_flow_tasks =
                                         [k \in 1..Len(drawn) |-> drawn[k].dft]]]
    IN  Drawn(DataFlowDiagramsOf(pkg.data_flow_tasks))

-----------------------------------------------------------------------------
(* Inputs of a direct _link_stages_with_precedence call *)

MaxStages == 2
MaxConstraints == 2

\* Sequences over S of length at most n
SeqUpTo(S, n) == UNION { [1..m -> S] : m \in 0..n }

\* "A" is a substring of "AB": a reference to AB also contains the name A
StageNames == {"A", "AB"}
\* Reference strings are paths whose last segment names a stage; no stage is named X
SourceRefStrings == {"Package\\A", "Package\\AB", "Package\\X"}
TargetRefStrings == {"Package\\A", "Package\\X"}
GuardExpressions == {None, PyStr(""), PyStr("@[User::n]==1"), PyStr("@[User::n]>2")}

\* Fresh stages, numbered in list order as _parse_control_flow numbers them
FreshStages(names) ==
    [i \in 1..Len(names) |-> ControlFlowStage(i, names[i], "SqlTask", None, <<>>)]

LinkConstraintInputs ==
    { PrecedenceConstraint("", "", "", f, t, 0, TRUE, e, None) :
        f \in SourceRefStrings, t \in TargetRefStrings, e \in GuardExpressions }

-----------------------------------------------------------------------------
(* Inputs of direct _parse_precedence_constraint / _parse_variables /
   _parse_parameters calls *)

MaxVariables == 2

\* Texts of a numeric attribute: integer literals and texts int() rejects
NumericTexts == {"", "2", "x", " 1", "-1", "1.5"}
OptionalNumericTexts == {None} \cup { PyStr(t) : t \in NumericTexts }

\* The attribute pairs of an optional attribute
OptAttr(key, v) == IF v = None THEN {} ELSE {<<key, v[2]>>}

NumericConstraintElems ==
    { Elem(Tag("PrecedenceConstraint"),
           Attrs({<<NsKey("From"), "Package\\A">>, <<NsKey("To"), "Package\\AB">>}
                 \cup OptAttr(NsKey("Value"), v) \cup OptAttr(NsKey("EvalOp"), e)),
           None, <<>>) :
        v \in OptionalNumericTexts, e \in OptionalNumericTexts }

VariableElems ==
    { Elem(Tag("Variable"), Attrs({<<NsKey("ObjectName"), "n">>}), None, <<>>) }
    \cup
    { Elem(Tag("Variable"), Attrs({<<NsKey("ObjectName"), "n">>}), None,
           << Elem(Tag("VariableValue"), Attrs(OptAttr(NsKey("DataType"), d)),
                   PyStr("7"), <<>>) >>) :
        d \in OptionalNumericTexts }

VariableDocs ==
    { Elem(Tag("Executable"), NoAttrs, None,
           << Elem(Tag(c), NoAttrs, None, vs) >>) :
        c \in {"Variables", "PackageVariables"},
        vs \in SeqUpTo(VariableElems, MaxVariables) }

ParameterElems ==
    { Elem(Tag("PackageParameter"),
           Attrs({<<NsKey("ObjectName"), "p">>} \cup OptAttr(NsKey("DataType"), d)),
           None, <<>>) :
        d \in OptionalNumericTexts }

ParameterDocs ==
    { Elem(Tag("Executable"), NoAttrs, None,
           << Elem(Tag("PackageParameters"), NoAttrs, None, ps) >>) :
        ps \in SeqUpTo(ParameterElems, MaxVariables) }

-----------------------------------------------------------------------------
(* Inputs of a direct _parse_data_flow_component call *)

MaxProperties == 2

\* Class identifiers: with "Source", with "Destination", with both, with
\* neither, with a lower-case "source" only, empty
ComponentClasses ==
    {"Microsoft.OLEDBSource", "Microsoft.OLEDBDestination",
     "Microsoft.DestinationFromSource", "Microsoft.ConditionalSplit",
     "Microsoft.resourceLookup", ""}

PropertyElem(name, text) ==
    Elem("property", Attrs({<<"name", name>>}), text, <<>>)

\* The properties an output may carry
OutputPropertyElems ==
    { PropertyElem("Expression", t) : t \in {None, PyStr("[Risk] > 5")} }
    \cup { PropertyElem("IsDefaultOut", t) :
             t \in {None, PyStr("true"), PyStr("True"), PyStr("false")} }
    \cup { PropertyElem("FriendlyExpression", PyStr("Risk > 5")),
           PropertyElem("EvaluationOrder", PyStr("0")) }

OutputElem(name, props) ==
    Elem("output", Attrs({<<"name", name>>}), None,
         << Elem("properties", NoAttrs, None, props) >>)

\* A second output: an ordinary one, a default one, one with an empty Expression
SecondOutputProperties ==
    { <<>>, <<PropertyElem("IsDefaultOut", PyStr("TRUE"))>>,
      <<PropertyElem("Expression", None)>> }

ComponentElem(class, children) ==
    Elem("component",
         Attrs({<<"name", "Comp">>, <<"refId", "Package\\DFT\\Comp">>}
               \cup OptAttr("componentClassID", class)),
         None, children)

ComponentElems ==
    { ComponentElem(c, <<>>) :
        c \in {None} \cup { PyStr(x) : x \in ComponentClasses } }
    \cup
    { ComponentElem(PyStr("Microsoft.ConditionalSplit"),
          << Elem("outputs", NoAttrs, None,
                  << OutputElem("Case1", ps), OutputElem("Default", qs) >>) >>) :
        ps \in SeqUpTo(OutputPropertyElems, MaxProperties),
        qs \in SecondOutputProperties }

-----------------------------------------------------------------------------
(* Inputs of a direct _parse_connection_string call *)

\* key=value segments of connection strings: of OLE DB and ADO.NET managers,
\* of a data-shaping provider, of an SMTP manager
ConnectionSegments ==
    { "Data Source=SRV01", "Server=SRV02", "Initial Catalog=Sales", "Database=Stage",
      "Provider=SQLOLEDB", "provider=SQLNCLI11.1", "Data Provider=MSDASQL",
      "SmtpServer=mail", "Data Source=", "Integrated Security=SSPI" }

\* No string, the empty string, one segment, two segments with or without a
\* closing ';', and the connection string of an OLE DB manager
ConnectionStringInputs ==
    { None, PyStr(""),
      PyStr("Data Source=SRV01;Initial Catalog=Sales;Provider=SQLOLEDB") }
    \cup { PyStr(a) : a \in ConnectionSegments }
    \cup { PyStr(a \o ";" \o b \o close) :
             a \in ConnectionSegments, b \in ConnectionSegments, close \in {"", ";"} }

-----------------------------------------------------------------------------
(* Documents given to parse() *)

MaxDocExecutables == 2
MaxDocConstraints == 2

ExecutableElem(attrs, children) == Elem(Tag("Executable"), Attrs(attrs), None, children)

\* Children of an Executables container: executables named A and AB (the
\* second with a nested task), one without ObjectName, and an element that
\* is no executable
ExecutablesChildren ==
    { ExecutableElem({<<NsKey("ObjectName"), "A">>,
                      <<NsKey("ExecutableType"), "Microsoft.ExecuteSQLTask">>}, <<>>),
      ExecutableElem({<<NsKey("ObjectName"), "AB">>,
                      <<NsKey("ExecutableType"), "STOCK:SEQUENCE">>},
          << Elem(Tag("Executables"), NoAttrs, None,
                  << ExecutableElem({<<NsKey("ObjectName"), "Inner">>,
                                     <<NsKey("CreationName"), "Microsoft.Pipeline">>},
                                    <<>>) >>) >>),
      ExecutableElem({<<NsKey("CreationName"), "Microsoft.SendMailTask">>}, <<>>),
      Elem(Tag("Property"), Attrs({<<NsKey("Name"), "PackageFormatVersion">>}),
           PyStr("8"), <<>>) }

ConstraintElem(from, to, extra) ==
    Elem(Tag("PrecedenceConstraint"),
         Attrs({<<NsKey("From"), from>>, <<NsKey("To"), to>>} \cup extra),
         None, <<>>)

RootElem(children) ==
    Elem(Tag("Executable"), Attrs({<<NsKey("ObjectName"), "Package">>}), None, children)

\* Two Executables containers around an element that is none
StageDocs ==
    { RootElem(<< Elem(Tag("Executables"), NoAttrs, None, e1),
                  Elem(Tag("Property"), NoAttrs, PyStr("0"), <<>>),
                  Elem(Tag("Executables"), NoAttrs, None, e2),
                  Elem(Tag("PrecedenceConstraints"), NoAttrs, None,
                       << ConstraintElem("Package\\A", "Package\\AB", {}) >>) >>) :
        e1 \in SeqUpTo(ExecutablesChildren, MaxDocExecutables),
        e2 \in SeqUpTo(ExecutablesChildren, MaxDocExecutables) }

\* Children of a PrecedenceConstraints container: constraints between
\* resolvable and unresolvable endpoints, with no, an empty or a non-empty
\* guard, one with a malformed Value, and an element that is no constraint
ConstraintsChildren ==
    { ConstraintElem(f, t, OptAttr(NsKey("Expression"), e)) :
        f \in {"Package\\A", "Package\\X"},
        t \in {"Package\\AB", "Package\\X"},
        e \in {None, PyStr(""), PyStr("@[User::n]==1")} }
    \cup { ConstraintElem("Package\\A", "Package\\AB", {<<NsKey("Value"), "x">>}),
           Elem(Tag("Property"), NoAttrs, PyStr("0"), <<>>) }

\* Stages A and AB and two PrecedenceConstraints containers
ConstraintDocs ==
    { RootElem(<< Elem(Tag("Executables"), NoAttrs, None,
                       << ExecutableElem({<<NsKey("ObjectName"), "A">>}, <<>>),
                          ExecutableElem({<<NsKey("ObjectName"), "AB">>}, <<>>) >>),
                  Elem(Tag("PrecedenceConstraints"), NoAttrs, None, p1),
                  Elem(Tag("PrecedenceConstraints"), NoAttrs, None, p2) >>) :
        p1 \in SeqUpTo(ConstraintsChildren, MaxDocConstraints),
        p2 \in { <<>>, << ConstraintElem("Package\\AB", "Package\\A",
                              {<<NsKey("Value"), "1">>, <<NsKey("EvalOp"), "2">>}) >> } }

MaxDataFlowExecutables == 2

NamedComponentElem(name, ref_id, class, props) ==
    Elem("component",
         Attrs({<<"name", name>>, <<"refId", ref_id>>, <<"componentClassID", class>>}),
         None, << Elem("properties", NoAttrs, None, props) >>)

PathElem(name, start, end) ==
    Elem("path", Attrs({<<"name", name>>, <<"startId", start>>, <<"endId", end>>}),
         None, <<>>)

PipelineElem(comps, paths) ==
    Elem("pipeline", NoAttrs, None,
         << Elem("components", NoAttrs, None, comps),
            Elem("paths", NoAttrs, None, paths) >>)

ObjectDataElem(children) == Elem(Tag("ObjectData"), NoAttrs, None, children)

\* A task with its SqlTaskData / SendMailTaskData element under ObjectData
SqlTaskElem(name, statement) ==
    ExecutableElem({<<NsKey("ObjectName"), name>>,
                    <<NsKey("ExecutableType"), "Microsoft.ExecuteSQLTask">>},
        << ObjectDataElem(<< Elem("{" \o SQLTASK_NS \o "}SqlTaskData",
                                  Attrs({<<"{" \o SQLTASK_NS \o "}SqlStatementSource",
                                           statement>>}),
                                  None, <<>>) >>) >>)

SendMailTaskElem(name, to) ==
    ExecutableElem({<<NsKey("ObjectName"), name>>,
                    <<NsKey("CreationName"), "Microsoft.SendMailTask">>},
        << ObjectDataElem(<< Elem("{" \o SENDMAILTASK_NS \o "}SendMailTaskData",
                                  Attrs({<<"{" \o SENDMAILTASK_NS \o "}To", to>>}),
                                  None, <<>>) >>) >>)

PipelineExecutableElem(name, content) ==
    ExecutableElem({<<NsKey("ObjectName"), name>>,
                    <<NsKey("ExecutableType"), "Microsoft.Pipeline">>}, content)

\* Top-level executables: a data flow Load reading [dbo].[Orders] and writing
\* Orders, its pipeline under ObjectData; a container Batch with a nested
\* data flow (its pipeline a direct child, its source a SQL command), a nested
\* mail task and a nested SQL task; a SQL task of its own
DataFlowExecutables ==
    { PipelineExecutableElem("Load",
          << ObjectDataElem(<< PipelineElem(
                 << NamedComponentElem("Src", "Package\\Load\\Src", "Microsoft.OLEDBSource",
                        <<PropertyElem("OpenRowset", PyStr("[dbo].[Orders]"))>>),
                    NamedComponentElem("Dst", "Package\\Load\\Dst",
                        "Microsoft.OLEDBDestination",
                        <<PropertyElem("OpenRowset", PyStr("Orders"))>>) >>,
                 << PathElem("Out", "Package\\Load\\Src.Outputs[Out]",
                             "Package\\Load\\Dst.Inputs[In]") >>) >>) >>),
      ExecutableElem({<<NsKey("ObjectName"), "Batch">>,
                      <<NsKey("ExecutableType"), "STOCK:SEQUENCE">>},
          << Elem(Tag("Executables"), NoAttrs, None,
                  << PipelineExecutableElem("Inner",
                         << PipelineElem(
                                << NamedComponentElem("Read", "Package\\Batch\\Inner\\Read",
                                       "Microsoft.OLEDBSource",
                                       <<PropertyElem("SqlCommand",
                                                      PyStr("FROM s.T"))>>) >>,
                                <<>>) >>),
                     SendMailTaskElem("Notify", "ops@example.com"),
                     SqlTaskElem("Run", "INSERT INTO dbo.Log") >>) >>),
      SqlTaskElem("Purge", "FROM dbo.Old") }

\* No event handlers, or an OnError handler with a mail task and a data flow
EventHandlerContainers ==
    { <<>>,
      << Elem(Tag("EventHandlers"), NoAttrs, None,
              << Elem(Tag("EventHandler"),
                      Attrs({<<NsKey("EventName"), "OnError">>}), None,
                      << Elem(Tag("Executables"), NoAttrs, None,
                              << SendMailTaskElem("Alarm", "dba@example.com"),
                                 PipelineExecutableElem("Fix", <<>>) >>) >>) >>) >> }

\* One Executables container, then the event handlers
DataFlowDocs ==
    { RootElem(<< Elem(Tag("Executables"), NoAttrs, None, e) >> \o h) :
        e \in SeqUpTo(DataFlowExecutables, MaxDataFlowExecutables),
        h \in EventHandlerContainers }

Documents ==
    StageDocs \cup ConstraintDocs \cup VariableDocs \cup ParameterDocs \cup DataFlowDocs

-----------------------------------------------------------------------------
(* Inputs of direct DiagramGenerator calls *)

MaxComponents == 2
MaxPaths == 2

\* A DataFlowComponent as a caller may build it
Component(name, ref_id, component_type, component_class, output_columns, conditional_outputs, sql_command, table_name) ==
    DataFlowComponent(name, ref_id, component_type, component_class, None, <<>>,
                      output_columns, conditional_outputs, None, sql_command,
                      table_name, <<>>, FALSE)

ExpressionColumn(name, expression) == OutputColumn(name, None, None, None, expression)

ComponentInputs ==
    { Component("Source 1", "Package\\DFT\\Src", "Source", "Microsoft.OLEDBSource",
                <<>>, <<>>, PyStr(" SELECT 1\nFROM t "), None),
      Component("SrcCopy", "Package\\DFT\\C2", "Transform", "Microsoft.DerivedColumn",
                << ExpressionColumn("A", None), ExpressionColumn("B", PyStr("x + 1")),
                   ExpressionColumn("C", PyStr("")), ExpressionColumn("D", PyStr("z")) >>,
                <<>>, None, None),
      Component("Dst-1.a", "Package\\DFT\\Dst", "Destination", "Microsoft.OLEDBDestination",
                <<>>, <<>>, None, PyStr("dbo.T")),
      Component("", "Package\\DFT\\Lkp", "Lookup", "Microsoft.Lookup",
                <<>>, <<>>, None, None),
      Component("Source 1", "Package\\DFT\\Split", "Transform", "Microsoft.ConditionalSplit",
                <<>>,
                << ConditionalOutput("Case1", PyStr("a > 1"), None, None, PyBool(FALSE)),
                   ConditionalOutput("Rest", None, None, None, PyBool(FALSE)),
                   ConditionalOutput("Default", None, None, None, PyBool(TRUE)) >>,
                None, None) }

\* The reference strings resolved against a component list
ReferenceInputs ==
    { "Package\\DFT\\Src.Outputs[Out]", "X\\Source 1", "Other\\Src.Outputs[Out]",
      "Src.Outputs" }

PathInputs ==
    { DataFlowPath("Out", "Package\\DFT.Paths[Out]",
                   "Package\\DFT\\Src.Outputs[Out]", "Package\\DFT\\Dst.Inputs[In]"),
      DataFlowPath("", "Package\\DFT.Paths[Copy]",
                   "Other\\Src.Outputs[Out]", "Package\\DFT\\C2.Inputs[In]") }

TaskInputs ==
    { DataFlowTask("DFT", "Package\\DFT", "{1}", None, components, paths) :
        components \in SeqUpTo(ComponentInputs, MaxComponents),
        paths \in SeqUpTo(PathInputs, MaxPaths) }

\* The names handed to _sanitize_id
NameInputs ==
    { c.name : c \in ComponentInputs }
    \cup {"DFT", "Dst 1_a", "a/b (c)", "Café ×2²", "ª½", "x×y"}

-----------------------------------------------------------------------------
(* Packages a DiagramGenerator is built on *)

\* The constraint that guards Load
GuardedConstraints ==
    << PrecedenceConstraint("Constraint", "Package.PrecedenceConstraints[Constraint]", "{2}",
                            "Package\\Extract", "Package\\Load", 0, TRUE,
                            PyStr("@[User::n]==1"), None) >>

\* The stages Extract and Load, numbered and linked as the parser does
LinkedStages ==
    LinkStagesWithPrecedence(
        << ControlFlowStage(1, "Extract", "SqlTask", None, <<>>),
           ControlFlowStage(2, "Load", "DataFlow", PyStr("Loads the rows"),
               << [name |-> "Inner", ref_id |-> "Package\\Load\\Inner", dtsid |-> "{3}",
                   type |-> "Microsoft.Pipeline", description |-> None] >>) >>,
        GuardedConstraints).stages

Destination(name) ==
    Component(name, "Package\\DFT\\" \o name, "Destination", "Microsoft.OLEDBDestination",
              <<>>, <<>>, None, None)

RoutingPath(name, source, output, destination_ref_id) ==
    DataFlowPath(name, "Package\\DFT.Paths[" \o name \o "]",
                 "Package\\DFT\\" \o source \o ".Outputs[" \o output \o "]",
                 destination_ref_id)

InputOf(name) == "Package\\DFT\\" \o name \o ".Inputs[In]"

\* The names of two destinations: unrelated names, and the names a designer
\* gives by default, the one a prefix of the other
DestinationNames ==
    { <<"High", "Low">>, <<"OLE DB Destination", "OLE DB Destination 1">>,
      <<"OLE DB Destination 1", "OLE DB Destination">> }

\* The routes of a ConditionalSplit: HighRisk with an expression and Default
\* flagged default, in either order, the default route with or without an
\* expression of its own
RouteLists ==
    { << ConditionalOutput("HighRisk", PyStr("[Risk] > 5"), PyStr("Risk > 5"), None,
                           PyBool(FALSE)),
         ConditionalOutput("Default", None, None, None, PyBool(TRUE)) >>,
      << ConditionalOutput("Default", PyStr("1 == 1"), PyStr("always"), None, PyBool(TRUE)),
         ConditionalOutput("HighRisk", PyStr("[Risk] > 5"), None, None, PyBool(FALSE)) >>,
      << ConditionalOutput("HighRisk", PyStr("[Risk] > 5"), PyStr(""), None, PyBool(FALSE)),
         ConditionalOutput("Default", PyStr("1 == 1"), None, None, PyBool(TRUE)) >> }

\* One Source, one ConditionalSplit and two Destinations; the edge of route
\* HighRisk ends in the first destination, the edge of Default in the second
SplitTask(names, routes) ==
    DataFlowTask("DFT", "Package\\DFT", "{1}", None,
        << Component("Src", "Package\\DFT\\Src", "Source", "Microsoft.OLEDBSource",
                     <<>>, <<>>, None, PyStr("dbo.T")),
           Component("Split", "Package\\DFT\\Split", "Transform",
                     "Microsoft.ConditionalSplit", <<>>, routes, None, None),
           Destination(names[1]), Destination(names[2]) >>,
        << DataFlowPath("Rows", "Package\\DFT.Paths[Rows]",
                        "Package\\DFT\\Src.Outputs[Out]", InputOf("Split")),
           RoutingPath("HighRisk", "Split", "HighRisk", InputOf(names[1])),
           RoutingPath("Default", "Split", "Default", InputOf(names[2])) >>)

\* The edges that leave a Lookup: the match edge and the no-match edge in
\* either order, and an error edge that is neither
LookupPathLists ==
    { << RoutingPath("Lookup Match Output", "Lkp", "Lookup Match Output", InputOf("Good")),
         RoutingPath("Lookup No Match Output", "Lkp", "Lookup No Match Output",
                     InputOf("Bad")) >>,
      << RoutingPath("Lookup No Match Output", "Lkp", "Lookup No Match Output",
                     InputOf("Bad")),
         RoutingPath("Lookup Error Output", "Lkp", "Lookup Error Output", InputOf("Bad")),
         RoutingPath("Lookup Match Output", "Lkp", "Lookup Match Output",
                     InputOf("Good")) >> }

\* The edges that leave a Multicast: into two components of the task, and a
\* third into a component the task does not have
MulticastPathLists ==
    { << RoutingPath("Out 1", "Copy", "Out 1", InputOf("Good")),
         RoutingPath("Out 2", "Copy", "Out 2", InputOf("Bad")) >>,
      << RoutingPath("Out 1", "Copy", "Out 1", InputOf("Good")),
         RoutingPath("Out 3", "Copy", "Out 3", "Package\\Other\\Zed.Inputs[In]"),
         RoutingPath("Out 2", "Copy", "Out 2", InputOf("Bad")) >> }

\* A Lookup or a Multicast in front of the destinations Good and Bad
FanOutTask(name, class, paths) ==
    DataFlowTask("DFT", "Package\\DFT", "{1}", None,
        << Component(name, "Package\\DFT\\" \o name, "Transform", class,
                     <<>>, <<>>, None, None),
           Destination("Good"), Destination("Bad") >>,
        paths)

RoutingTasks ==
    { SplitTask(names, routes) : names \in DestinationNames, routes \in RouteLists }
    \cup { FanOutTask("Lkp", "Microsoft.Lookup", paths) : paths \in LookupPathLists }
    \cup { FanOutTask("Copy", "Microsoft.Multicast", paths) : paths \in MulticastPathLists }

\* Packages with or without stages, with one data flow task or none
PackageInputs ==
    { DtsxPackage(<<>>, <<>>, s[1], tasks, None, <<>>, <<>>, s[2]) :
        s \in { << <<>>, <<>> >>, << LinkedStages, GuardedConstraints >> },
        tasks \in { <<>> } \cup { << t >> : t \in RoutingTasks } }

\* The operations of a DiagramGenerator
GeneratorOperations ==
    { "generate_all_diagrams", "generate_control_flow_diagram",
      "generate_data_flow_diagram", "generate_execution_order_diagram",
      "generate_routing_logic_diagram" }

\* The first outputs a caller keeps, by operation and task number: f with the
\* output val of a call added unless an earlier call gave one, and at
\* <<"repeated", 0>> whether the call repeated an earlier one
Recorded(f, key, val) ==
    IF key \in DOMAIN f THEN (<<"repeated", 0>> :> TRUE) @@ f
    ELSE (<<"repeated", 0>> :> FALSE) @@ f @@ (key :> val)

-----------------------------------------------------------------------------
Init ==
    /\ pc = "new"
    /\ op = "__init__"
    /\ arg = <<>>
    /\ ret = None
    /\ exc = "none"
    /\ stages = <<>>
    /\ constraints = <<>>
    /\ root = None
    /\ package = None
    /\ data_flow_task = None
    /\ held = None
    /\ first_outputs = <<>>

\* A call of _get_attr(elem, "name", default)
CallGetAttr ==
    /\ pc = "new"
    /\ \E elem \in GetAttrElems, default \in GetAttrDefaults :
        /\ arg' = <<elem, AttrName, default>>
        /\ ret' = GetAttr(elem, AttrName, default)
    /\ pc' = "returned"
    /\ op' = "_get_attr"
    /\ UNCHANGED <<exc, stages, constraints, root, package>>
    /\ UNCHANGED <<data_flow_task, held, first_outputs>>

\* A call of _link_stages_with_precedence(stages, constraints) on fresh stages
CallLinkStages ==
    /\ pc = "new"
    /\ \E names \in SeqUpTo(StageNames, MaxStages),
          cons \in SeqUpTo(LinkConstraintInputs, MaxConstraints) :
        \E r \in {LinkStagesWithPrecedence(FreshStages(names), cons)} :
            /\ arg' = <<FreshStages(names), cons>>
            /\ stages' = r.stages
            /\ constraints' = cons
            /\ exc' = r.exc
            /\ pc' = IF r.exc = "none" THEN "returned" ELSE "raised"
    /\ op' = "_link_stages_with_precedence"
    /\ ret' = None
    /\ UNCHANGED <<root, package>>
    /\ UNCHANGED <<data_flow_task, held, first_outputs>>

\* A call of _parse_precedence_constraint(elem)
CallParsePrecedenceConstraint ==
    /\ pc = "new"
    /\ \E elem \in NumericConstraintElems :
        \E r \in {ParsePrecedenceConstraint(elem)} :
            /\ arg' = elem
            /\ ret' = r.val
            /\ exc' = r.exc
            /\ pc' = IF r.exc = "none" THEN "returned" ELSE "raised"
    /\ op' = "_parse_precedence_constraint"
    /\ UNCHANGED <<stages, constraints, root, package>>
    /\ UNCHANGED <<data_flow_task, held, first_outputs>>

\* A call of _parse_variables() on a loaded document
CallParseVariables ==
    /\ pc = "new"
    /\ \E doc \in VariableDocs :
        \E r \in {ParseVariables(doc)} :
            /\ root' = doc
            /\ ret' = IF r.exc = "none" THEN r.val ELSE None
            /\ exc' = r.exc
            /\ pc' = IF r.exc = "none" THEN "returned" ELSE "raised"
    /\ op' = "_parse_variables"
    /\ UNCHANGED <<arg, stages, constraints, package>>
    /\ UNCHANGED <<data_flow_task, held, first_outputs>>

\* A call of _parse_parameters() on a loaded document
CallParseParameters ==
    /\ pc = "new"
    /\ \E doc \in ParameterDocs :
        \E r \in {ParseParameters(doc)} :
            /\ root' = doc
            /\ ret' = IF r.exc = "none" THEN r.val ELSE None
            /\ exc' = r.exc
            /\ pc' = IF r.exc = "none" THEN "returned" ELSE "raised"
    /\ op' = "_parse_parameters"
    /\ UNCHANGED <<arg, stages, constraints, package>>
    /\ UNCHANGED <<data_flow_task, held, first_outputs>>

\* A call of _parse_data_flow_component(elem)
CallParseDataFlowComponent ==
    /\ pc = "new"
    /\ \E elem \in ComponentElems :
        \E r \in {ParseDataFlowComponent(elem)} :
            /\ arg' = elem
            /\ ret' = r.val
            /\ exc' = r.exc
            /\ pc' = IF r.exc = "none" THEN "returned" ELSE "raised"
    /\ op' = "_parse_data_flow_component"
    /\ UNCHANGED <<stages, constraints, root, package>>
    /\ UNCHANGED <<data_flow_task, held, first_outputs>>

\* parse(), on a new parser or again on a parser that has parsed (the same
\* file): the document is read and the package built and kept in
\* self.package; an exception leaves self.package as it was
Parse ==
    /\ pc \in {"new", "parsed"}
    /\ \E doc \in (IF pc = "new" THEN Documents ELSE {root}) :
        \E r \in {ParsePackage(doc, package)} :
            /\ root' = doc
            /\ package' = IF r.exc = "none" THEN r.package ELSE package
            /\ stages' = r.stages
            /\ constraints' = r.constraints
            /\ ret' = r.package
            /\ exc' = r.exc
            /\ pc' = IF r.exc = "none" THEN "parsed" ELSE "raised"
    /\ op' = "parse"
    /\ UNCHANGED arg
    /\ UNCHANGED <<data_flow_task, held, first_outputs>>

\* DiagramGenerator(package): a caller builds a generator on a package
NewDiagramGenerator ==
    /\ pc = "new"
    /\ \E pkg \in PackageInputs :
        /\ package' = pkg
        /\ arg' = pkg
        /\ first_outputs' = (<<"__init__", 0>> :> pkg)
    /\ op' = "__init__"
    /\ pc' = "built"
    /\ UNCHANGED <<ret, exc, stages, constraints, root, data_flow_task, held>>

\* generate_control_flow_diagram(), on the package parse() returned or on the
\* package of a generator a caller built
GenerateControlFlowDiagram ==
    /\ pc \in {"parsed", "built", "generated"}
    /\ \E r \in {ControlFlowDiagram(package)} :
        /\ ret' = r
        /\ first_outputs'
             = Recorded(first_outputs, <<"generate_control_flow_diagram", 0>>, r)
    /\ op' = "generate_control_flow_diagram"
    /\ pc' = IF pc = "parsed" THEN "rendered" ELSE "generated"
    /\ UNCHANGED <<arg, exc, stages, constraints, root, package>>
    /\ UNCHANGED <<data_flow_task, held>>

\* A caller takes a task and resolves a reference against its components:
\* _extract_component_name(ref_id, dft.components)
CallExtractComponentName ==
    /\ pc = "new"
    /\ \E dft \in TaskInputs, ref_id \in ReferenceInputs :
        \E r \in {ExtractComponentName(ref_id, dft.components)} :
            /\ data_flow_task' = dft
            /\ arg' = <<ref_id, dft.components>>
            /\ ret' = r
            /\ held' = [ref_id |-> ref_id, name |-> r]
    /\ op' = "_extract_component_name"
    /\ pc' = "resolved"
    /\ UNCHANGED <<exc, stages, constraints, root, package, first_outputs>>

\* generate_data_flow_diagram(dft) for a task a caller built, for the task a
\* reference was resolved on, or for the k-th task of the package
CallGenerateDataFlowDiagram ==
    /\ pc \in {"new", "resolved", "parsed", "built", "generated"}
    /\ \E c \in (IF pc = "new" THEN { <<0, dft>> : dft \in TaskInputs }
                 ELSE IF pc = "resolved" THEN { <<0, data_flow_task>> }
                 ELSE { <<k, package.data_flow_tasks[k]>> :
                          k \in 1..Len(package.data_flow_tasks) }) :
        \E r \in {GenerateDataFlowDiagram(c[2])} :
            /\ arg' = c[2]
            /\ ret' = r.val
            /\ data_flow_task' = r.dft
            /\ package' = IF c[1] = 0 THEN package
                          ELSE [package EXCEPT !.data_flow_tasks[c[1]] = r.dft]
            /\ first_outputs'
                 = IF c[1] = 0 THEN first_outputs
                   ELSE Recorded(first_outputs, <<"generate_data_flow_diagram", c[1]>>,
                                 r.val)
    /\ op' = "generate_data_flow_diagram"
    /\ pc' = IF pc \in {"built", "generated"} THEN "generated" ELSE "drawn"
    /\ UNCHANGED <<exc, stages, constraints, root, held>>

\* The reference resolved first is resolved again on the task, after a
\* diagram of the task was drawn or at once
ResolveAgain ==
    /\ pc \in {"resolved", "drawn"}
    /\ held # None
    /\ arg' = <<held.ref_id, data_flow_task.components>>
    /\ ret' = ExtractComponentName(held.ref_id, data_flow_task.components)
    /\ op' = "_extract_component_name"
    /\ pc' = IF pc = "drawn" THEN "resolved after drawing" ELSE "resolved again"
    /\ UNCHANGED <<exc, stages, constraints, root, package, data_flow_task, held,
                   first_outputs>>

\* A call of _sanitize_id(name)
CallSanitizeId ==
    /\ pc = "new"
    /\ \E name \in NameInputs :
        /\ arg' = name
        /\ ret' = SanitizeId(name)
    /\ op' = "_sanitize_id"
    /\ pc' = "returned"
    /\ UNCHANGED <<exc, stages, constraints, root, package, data_flow_task, held,
                   first_outputs>>

\* generate_execution_order_diagram()
CallGenerateExecutionOrderDiagram ==
    /\ pc \in {"parsed", "built", "generated"}
    /\ \E r \in {GenerateExecutionOrderDiagram(package)} :
        /\ ret' = r
        /\ first_outputs'
             = Recorded(first_outputs, <<"generate_execution_order_diagram", 0>>, r)
    /\ op' = "generate_execution_order_diagram"
    /\ pc' = IF pc = "parsed" THEN "listed" ELSE "generated"
    /\ UNCHANGED <<arg, exc, stages, constraints, root, package>>
    /\ UNCHANGED <<data_flow_task, held>>

\* generate_routing_logic_diagram()
CallGenerateRoutingLogicDiagram ==
    /\ pc \in {"parsed", "built", "generated"}
    /\ \E r \in {GenerateRoutingLogicDiagram(package)} :
        /\ ret' = r
        /\ first_outputs'
             = Recorded(first_outputs, <<"generate_routing_logic_diagram", 0>>, r)
    /\ op' = "generate_routing_logic_diagram"
    /\ pc' = IF pc = "parsed" THEN "routed" ELSE "generated"
    /\ UNCHANGED <<arg, exc, stages, constraints, root, package>>
    /\ UNCHANGED <<data_flow_task, held>>

\* generate_all_diagrams()
CallGenerateAllDiagrams ==
    /\ pc \in {"parsed", "built", "generated"}
    /\ \E r \in {GenerateAllDiagrams(package)} :
        /\ ret' = r.val
        /\ package' = r.package
        /\ first_outputs' = Recorded(first_outputs, <<"generate_all_diagrams", 0>>, r.val)
    /\ op' = "generate_all_diagrams"
    /\ pc' = IF pc = "parsed" THEN "all drawn" ELSE "generated"
    /\ UNCHANGED <<arg, exc, stages, constraints, root>>
    /\ UNCHANGED <<data_flow_task, held>>

\* A call of _parse_connection_string(conn_string)
CallParseConnectionString ==
    /\ pc = "new"
    /\ \E conn_string \in ConnectionStringInputs :
        /\ arg' = conn_string
        /\ ret' = ParseConnectionString(conn_string)
    /\ op' = "_parse_connection_string"
    /\ pc' = "returned"
    /\ UNCHANGED <<exc, stages, constraints, root, package, data_flow_task, held,
                   first_outputs>>

Next ==
    \/ CallGetAttr
    \/ CallLinkStages
    \/ CallParsePrecedenceConstraint
    \/ CallParseVariables
    \/ CallParseParameters
    \/ CallParseDataFlowComponent
    \/ Parse
    \/ GenerateControlFlowDiagram
    \/ CallExtractComponentName
    \/ CallGenerateDataFlowDiagram
    \/ ResolveAgain
    \/ CallSanitizeId
    \/ CallGenerateExecutionOrderDiagram
    \/ NewDiagramGenerator
    \/ CallGenerateRoutingLogicDiagram
    \/ CallGenerateAllDiagrams
    \/ CallParseConnectionString

Spec == Init /\ [][Next]_vars

-----------------------------------------------------------------------------
(* Properties of the attribute resolver *)

\* C1: _get_attr returns the value of the first present key among the
\* namespace-qualified key, the bare key and the literal DTS: key, in that
\* order; it returns the default only when all three are absent, and it
\* never raises.
C1_GetAttrPriority ==
    op = "_get_attr" =>
        LET a == arg[1].attrib
            k1 == "{www.microsoft.com/SqlServer/Dts}name"
            k2 == "name"
            k3 == "DTS:name"
        IN  /\ exc = "none"
            /\ pc = "returned"
            /\ k1 \in DOMAIN a => ret = PyStr(a[k1])
            /\ (k1 \notin DOMAIN a /\ k2 \in DOMAIN a) => ret = PyStr(a[k2])
            /\ (k1 \notin DOMAIN a /\ k2 \notin DOMAIN a /\ k3 \in DOMAIN a)
                   => ret = PyStr(a[k3])
            /\ (k1 \notin DOMAIN a /\ k2 \notin DOMAIN a /\ k3 \notin DOMAIN a)
                   => ret = arg[3]

\* An attribute present only under the literal DTS:name key is returned
C1_Witness ==
    /\ op = "_get_attr"
    /\ DOMAIN arg[1].attrib = {"DTS:name"}
    /\ ret = PyStr("v")
    /\ arg[3] = PyStr("d")

-----------------------------------------------------------------------------
(* Properties of control-flow parsing *)

\* The children, of the kind named, of the containers given, in document order
RECURSIVE ChildrenOfKind(_, _)
ChildrenOfKind(containers, kind) ==
    IF containers = <<>> THEN <<>>
    ELSE SelectSeq(Head(containers).children, LAMBDA x : Contains(kind, x.tag))
             \o ChildrenOfKind(Tail(containers), kind)

\* The top-level elements of a document: the inner children of the root's
\* outer containers, in the order the document holds them
TopLevel(r, outer, inner) ==
    ChildrenOfKind(SelectSeq(r.children, LAMBDA e : Contains(outer, e.tag)), inner)

\* The namespace-qualified attribute of a document element, default without it
DocAttr(elem, name, default) ==
    IF NsKey(name) \in DOMAIN elem.attrib THEN elem.attrib[NsKey(name)] ELSE default

\* C2: the stages parse() returns are the document's top-level executables
\* in encounter order; the k-th has order k, so the order values are
\* pairwise distinct and strictly increasing along the list, whatever the
\* precedence constraints are.
C2_OrderMatchesEncounter ==
    (op = "parse" /\ exc = "none") =>
        LET Numbered(ex) ==
                /\ Len(stages) = Len(ex)
                /\ \A k \in 1..Len(stages) :
                    /\ stages[k].order = k
                    /\ stages[k].name = DocAttr(ex[k], "ObjectName", "Stage_" \o ToString(k))
                /\ \A i, j \in 1..Len(stages) :
                    i < j => stages[i].order < stages[j].order
        IN  Numbered(TopLevel(root, "Executables", "Executable"))

\* Three stages from two containers, the first of which starts with an
\* element that is no executable; the unnamed third executable is Stage_3
C2_Witness ==
    /\ op = "parse" /\ exc = "none"
    /\ Len(root.children) >= 3
    /\ Len(root.children[1].children) = 2
    /\ ~Contains("Executable", root.children[1].children[1].tag)
    /\ Len(root.children[3].children) = 2
    /\ Len(stages) = 3
    /\ stages[1].order = 1 /\ stages[1].name = "AB"
    /\ stages[3].order = 3 /\ stages[3].name = "Stage_3"

-----------------------------------------------------------------------------
(* Properties of the graph linker *)

LinkingOps == {"_link_stages_with_precedence", "parse", "generate_control_flow_diagram"}

\* A reference resolves when some stage's name occurs in it
Resolves(ref) == \E i \in 1..Len(stages) : Contains(stages[i].name, ref)

\* The stage a reference resolves to: the last stage of the list whose name
\* occurs in it
ResolvedStage(ref) ==
    CHOOSE i \in 1..Len(stages) :
        /\ Contains(stages[i].name, ref)
        /\ \A j \in (i + 1)..Len(stages) : ~Contains(stages[j].name, ref)

BothResolve(c) == Resolves(c.from_ref) /\ Resolves(c.to_ref)

NoDuplicates(list) ==
    \A i, j \in 1..Len(list) : list[i] = list[j] => i = j

\* C3: after linking, for every constraint whose source and target both
\* resolve to stages, the target reference is in the source stage's
\* successor list and the source reference is in the target stage's
\* predecessor list.
C3_ResolvedConstraintsLinked ==
    (op \in LinkingOps /\ exc = "none") =>
        \A k \in 1..Len(constraints) :
            BothResolve(constraints[k]) =>
                /\ InList(constraints[k].to_ref,
                          stages[ResolvedStage(constraints[k].from_ref)].precedence_to)
                /\ InList(constraints[k].from_ref,
                          stages[ResolvedStage(constraints[k].to_ref)].precedence_from)

\* Linking returned and linked a constraint between two different stages
C3_Witness ==
    /\ op \in LinkingOps /\ exc = "none"
    /\ \E k \in 1..Len(constraints) :
        /\ BothResolve(constraints[k])
        /\ ResolvedStage(constraints[k].from_ref) # ResolvedStage(constraints[k].to_ref)
        /\ stages[ResolvedStage(constraints[k].from_ref)].precedence_to
               = <<constraints[k].to_ref>>
        /\ stages[ResolvedStage(constraints[k].to_ref)].precedence_from
               = <<constraints[k].from_ref>>

\* C4: a constraint with an endpoint that resolves to no stage is dropped
\* from linking: the call never raises, and every entry of a predecessor
\* list, of a successor list and every condition comes from a constraint
\* whose endpoints both resolve.
C4_UnresolvedDropped ==
    op = "_link_stages_with_precedence" =>
        /\ exc = "none"
        /\ \A i \in 1..Len(stages) :
            /\ \A n \in 1..Len(stages[i].precedence_to) :
                \E k \in 1..Len(constraints) :
                    /\ BothResolve(constraints[k])
                    /\ constraints[k].to_ref = stages[i].precedence_to[n]
                    /\ ResolvedStage(constraints[k].from_ref) = i
            /\ \A n \in 1..Len(stages[i].precedence_from) :
                \E k \in 1..Len(constraints) :
                    /\ BothResolve(constraints[k])
                    /\ constraints[k].from_ref = stages[i].precedence_from[n]
                    /\ ResolvedStage(constraints[k].to_ref) = i
            /\ stages[i].condition # None =>
                \E k \in 1..Len(constraints) :
                    /\ BothResolve(constraints[k])
                    /\ constraints[k].expression = stages[i].condition
                    /\ ResolvedStage(constraints[k].to_ref) = i

\* The constraints that gate stage i with a non-empty guard
GuardedInto(i) ==
    { k \in 1..Len(constraints) :
        /\ BothResolve(constraints[k])
        /\ ResolvedStage(constraints[k].to_ref) = i
        /\ Truthy(constraints[k].expression) }

MaxOf(S) == CHOOSE m \in S : \A n \in S : n <= m

\* C5: after linking, a stage's condition is the guard of the last
\* constraint (in list order) with both endpoints resolved, a non-empty
\* guard and that stage as target; it is None when there is none.
C5_LastGuardWins ==
    (op \in LinkingOps /\ exc = "none") =>
        \A i \in 1..Len(stages) :
            IF GuardedInto(i) = {}
            THEN stages[i].condition = None
            ELSE stages[i].condition = constraints[MaxOf(GuardedInto(i))].expression

\* C6: no predecessor list and no successor list holds the same reference
\* twice, whatever the stage list and the constraint list.
C6_NoDuplicateReferences ==
    op \in LinkingOps =>
        \A i \in 1..Len(stages) :
            /\ NoDuplicates(stages[i].precedence_from)
            /\ NoDuplicates(stages[i].precedence_to)

\* Linking returned on a list that repeats a constraint between two resolved
\* endpoints
C6_Witness ==
    /\ op \in LinkingOps /\ exc = "none"
    /\ Len(constraints) >= 2
    /\ constraints[1].from_ref = constraints[2].from_ref
    /\ constraints[1].to_ref = constraints[2].to_ref
    /\ BothResolve(constraints[1])
    /\ stages[ResolvedStage(constraints[1].from_ref)].precedence_to
           = <<constraints[1].to_ref>>

\* C7: linking leaves the constraint list alone: parse() returns a package
\* whose raw_precedence_constraints are the document's top-level precedence
\* constraints in document order, whether or not their endpoints resolve,
\* and generate_control_flow_diagram draws one edge per raw constraint, in
\* that order.
C7_RawConstraintsKept ==
    /\ op = "parse" =>
        /\ exc = "none"
        /\ LET Kept(raw, cs) ==
                   /\ Len(raw) = Len(cs)
                   /\ \A k \in 1..Len(raw) :
                       /\ raw[k].from_ref = DocAttr(cs[k], "From", "")
                       /\ raw[k].to_ref = DocAttr(cs[k], "To", "")
                       /\ raw[k].expression =
                              IF NsKey("Expression") \in DOMAIN cs[k].attrib
                              THEN PyStr(cs[k].attrib[NsKey("Expression")]) ELSE None
           IN  Kept(package.raw_precedence_constraints,
                    TopLevel(root, "PrecedenceConstraints", "PrecedenceConstraint"))
    /\ op = "generate_control_flow_diagram" =>
        /\ Len(ret.paths) = Len(package.raw_precedence_constraints)
        /\ \A k \in 1..Len(ret.paths) :
            /\ ret.paths[k][1] = LastSegment(package.raw_precedence_constraints[k].from_ref)
            /\ ret.paths[k][2] = LastSegment(package.raw_precedence_constraints[k].to_ref)

-----------------------------------------------------------------------------
(* Properties of numeric fields *)

\* The text of a numeric attribute is absent or no integer literal
AbsentOrMalformed(elem, attr) ==
    LET v == GetAttr(elem, attr, None)
    IN  v = None \/ ~IsIntLiteral(v[2])

\* The Variable elements / PackageParameter elements of a one-container document
ContainerChildren(r) == r.children[1].children

\* C8: a constraint, variable or parameter whose numeric attribute (Value,
\* EvalOp, DataType) is absent or malformed is still constructed, with the
\* default (Value 0, EvalOp None, DataType 8); parsing does not raise.
C8_NumericDefaults ==
    /\ op = "_parse_precedence_constraint" =>
        /\ exc = "none"
        /\ AbsentOrMalformed(arg, "Value") => ret.value = 0
        /\ AbsentOrMalformed(arg, "EvalOp") => ret.eval_op = None
    /\ (op = "_parse_variables" /\ EndsWith(root.children[1].tag, "}Variables")) =>
        /\ exc = "none"
        /\ Len(ret) = Len(ContainerChildren(root))
        /\ \A i \in 1..Len(ret) :
            LET var == ContainerChildren(root)[i]
            IN  (var.children = <<>> \/ AbsentOrMalformed(var.children[1], "DataType"))
                    => ret[i].data_type = 8
    /\ op = "_parse_parameters" =>
        /\ exc = "none"
        /\ Len(ret) = Len(ContainerChildren(root))
        /\ \A i \in 1..Len(ret) :
            AbsentOrMalformed(ContainerChildren(root)[i], "DataType")
                => ret[i].data_type = 8

-----------------------------------------------------------------------------
(* Properties of data-flow components *)

ComponentParsed == op = "_parse_data_flow_component" /\ exc = "none"

\* The class identifier of the parsed element, empty when it has none
ClassOf(elem) ==
    IF "componentClassID" \in DOMAIN elem.attrib
    THEN elem.attrib["componentClassID"] ELSE ""

\* C9: a parsed component has exactly one category: Source if its class
\* identifier contains "Source", otherwise Destination if it contains
\* "Destination", otherwise Transform.
C9_ComponentCategory ==
    ComponentParsed =>
        LET src == Contains("Source", ClassOf(arg))
            dst == Contains("Destination", ClassOf(arg))
        IN  /\ ret.component_type \in {"Source", "Destination", "Transform"}
            /\ ret.component_type = "Source" <=> src
            /\ ret.component_type = "Destination" <=> (~src /\ dst)
            /\ ret.component_type = "Transform" <=> (~src /\ ~dst)

\* A class that contains both substrings is a Source
C9_Witness ==
    /\ ComponentParsed
    /\ ClassOf(arg) = "Microsoft.DestinationFromSource"
    /\ ret.component_type = "Source"

\* The output elements of the parsed component
OutputsOf(elem) ==
    IF elem.children = <<>> THEN <<>> ELSE elem.children[1].children

\* The text of the property an output carries under a name: that of the
\* last property element with the name, None when there is none
CarriedText(output, name) ==
    LET ps == output.children[1].children
        hits == { i \in 1..Len(ps) : ps[i].attrib["name"] = name }
    IN  IF hits = {} THEN None
        ELSE ps[CHOOSE i \in hits : \A j \in hits : j <= i].text

CarriesRoute(output) ==
    LET e == CarriedText(output, "Expression")
        d == CarriedText(output, "IsDefaultOut")
    IN  \/ (e # None /\ e[2] # "")
        \/ (d # None /\ Lower(d[2]) = "true")

\* C10: a ConditionalOutput is recorded for an output if and only if the
\* output's properties carry a non-empty Expression or an IsDefaultOut
\* equal to 'true' (case-insensitive); every recorded conditional output has
\* a non-empty expression or is_default true.
C10_ConditionalOutputs ==
    ComponentParsed =>
        /\ \A i \in 1..Len(OutputsOf(arg)) :
            CarriesRoute(OutputsOf(arg)[i]) <=>
                \E j \in 1..Len(ret.conditional_outputs) :
                    ret.conditional_outputs[j].name = OutputsOf(arg)[i].attrib["name"]
        /\ \A j \in 1..Len(ret.conditional_outputs) :
            \/ (ret.conditional_outputs[j].expression # None
                    /\ ret.conditional_outputs[j].expression[2] # "")
            \/ ret.conditional_outputs[j].is_default = PyBool(TRUE)

\* A route recorded only because it is flagged default, in upper case, next
\* to an output with neither that is not recorded
C10_Witness ==
    /\ ComponentParsed
    /\ Len(OutputsOf(arg)) = 2
    /\ ~CarriesRoute(OutputsOf(arg)[1])
    /\ Len(ret.conditional_outputs) = 1
    /\ ret.conditional_outputs[1].name = "Default"
    /\ ret.conditional_outputs[1].expression = None
    /\ ret.conditional_outputs[1].is_default = PyBool(TRUE)

-----------------------------------------------------------------------------
(* Properties of data-flow parsing *)

\* The pipeline executables of a document, wherever they are nested, in
\* document order
PipelineExecutables(r) ==
    SelectSeq(Iter(r),
              LAMBDA e : /\ Contains("Executable", e.tag)
                         /\ \/ Contains("Pipeline", DocAttr(e, "ExecutableType", ""))
                            \/ Contains("Pipeline", DocAttr(e, "CreationName", "")))

\* The stages of the package whose kind is DataFlow
DataFlowStages ==
    SelectSeq(package.control_flow_stages, LAMBDA s : s.stage_type = "DataFlow")

\* C11 as stated: the package parse() returns has as many data-flow tasks as
\* it has stages of kind DataFlow, also with pipeline executables nested in
\* containers or event handlers.
C11_TaskPerDataFlowStage ==
    (op = "parse" /\ exc = "none") =>
        Len(package.data_flow_tasks) = Len(DataFlowStages)

\* C11, amended: the package parse() returns has exactly one data-flow task
\* per pipeline executable of the document, in document order, wherever the
\* executable is nested; every stage of kind DataFlow is the stage of one of
\* these executables, so there are at least as many tasks as DataFlow stages.
C11_TaskPerPipelineExecutable ==
    (op = "parse" /\ exc = "none") =>
        LET Matched(pipes, top) ==
                /\ Len(package.data_flow_tasks) = Len(pipes)
                /\ \A k \in 1..Len(pipes) :
                       package.data_flow_tasks[k].name
                           = DocAttr(pipes[k], "ObjectName", "Unknown")
                /\ \A k \in 1..Len(package.control_flow_stages) :
                       package.control_flow_stages[k].stage_type = "DataFlow"
                           => \E j \in 1..Len(pipes) : pipes[j] = top[k]
                /\ Len(DataFlowStages) <= Len(package.data_flow_tasks)
        IN  Matched(PipelineExecutables(root), TopLevel(root, "Executables", "Executable"))

\* A top-level data flow, one nested in a container and one in an event
\* handler: three tasks, one DataFlow stage
C11_Witness ==
    /\ op = "parse" /\ exc = "none"
    /\ Len(package.data_flow_tasks) = 3
    /\ package.data_flow_tasks[1].name = "Load"
    /\ package.data_flow_tasks[2].name = "Inner"
    /\ package.data_flow_tasks[3].name = "Fix"
    /\ Len(DataFlowStages) = 1
    /\ DataFlowStages[1].name = "Load"

-----------------------------------------------------------------------------
(* Properties of the derived annotations *)


\* The tables a package names: the target tables of its data-flow components
\* and the tables its collected SQL statements name, as schema and name
TablesNamed(pkg) ==
    { SchemaAndName(c.text) :
        c \in { d \in Range(ComponentTables(Chain(pkg.data_flow_tasks, "components"))
                          \o StatementMatches(
                                 TaskStatements(Chain(pkg.control_flow_stages, "tasks"))
                                     \o ComponentStatements(
                                            Chain(pkg.data_flow_tasks, "components")))) :
                  d.object_type = "Table" } }

\* The mail tasks of a package: those of its stages and of its event handlers
MailTasks(pkg) ==
    { t \in Range(Chain(pkg.control_flow_stages, "tasks"))
              \cup Range(Chain(pkg.error_handling.event_handlers, "executables")) :
        Contains("SendMailTask", t.type) }

\* C12: the package parse() returns carries the annotations mined from the
\* document of that parse: a Table record in database_objects for every
\* target table of a data-flow component and every table a collected SQL
\* statement names, no two with the same schema and name, and an alert for
\* every mail task of its stages and event handlers.
C12_AnnotationsOfThisParse ==
    (op = "parse" /\ exc = "none") =>
        /\ \A t \in TablesNamed(package) :
               \E i \in 1..Len(package.database_objects) :
                   /\ package.database_objects[i].object_type = "Table"
                   /\ package.database_objects[i].schema = t.schema
                   /\ package.database_objects[i].name = t.name
        /\ \A i, j \in 1..Len(package.database_objects) :
               ( /\ package.database_objects[i].object_type = "Table"
                 /\ package.database_objects[j].object_type = "Table"
                 /\ package.database_objects[i].schema = package.database_objects[j].schema
                 /\ package.database_objects[i].name = package.database_objects[j].name )
                   => i = j
        /\ \A t \in MailTasks(package) :
               \E i \in 1..Len(package.alerts) :
                   /\ package.alerts[i].name = t.name
                   /\ package.alerts[i].recipients = TaskGet(t, "to_address")


-----------------------------------------------------------------------------
(* Properties of the data-flow diagram *)

\* The name of the first component of the list whose index is in hits, None
\* when hits is empty
FirstOf(components, hits) ==
    IF hits = {} THEN None
    ELSE PyStr(components[CHOOSE k \in hits : \A j \in hits : k <= j].name)

\* The components whose reference id or name occurs in ref
OccurringIn(ref, components) ==
    { k \in 1..Len(components) :
        Contains(components[k].ref_id, ref) \/ Contains(components[k].name, ref) }

\* The last backslash-delimited segment of ref, cut at its first '.'
CutSegment(ref) == FirstPart(LastSegment(ref))

\* C13 as stated: the first component whose reference id or name occurs in
\* ref; only otherwise the first component whose reference id or name
\* contains the cut last segment of ref; None when neither exists.
C13_ResolvesBySegmentContainment ==
    op = "_extract_component_name" /\ pc = "resolved" =>
        LET ref == arg[1]
            components == arg[2]
            containing == { k \in 1..Len(components) :
                              \/ Contains(CutSegment(ref), components[k].ref_id)
                              \/ Contains(CutSegment(ref), components[k].name) }
        IN  ret = IF OccurringIn(ref, components) # {}
                  THEN FirstOf(components, OccurringIn(ref, components))
                  ELSE FirstOf(components, containing)

\* C13, amended: the first component whose reference id or name occurs in
\* ref; only otherwise, and only for a ref that contains a backslash, the
\* first component whose reference id contains the cut last segment of ref
\* or whose name equals it; None when neither exists.
C13_ResolvesBySegmentOfPath ==
    op = "_extract_component_name" /\ pc = "resolved" =>
        LET ref == arg[1]
            components == arg[2]
            partial == { k \in 1..Len(components) :
                           \/ Contains(CutSegment(ref), components[k].ref_id)
                           \/ CutSegment(ref) = components[k].name }
        IN  ret = IF OccurringIn(ref, components) # {}
                  THEN FirstOf(components, OccurringIn(ref, components))
                  ELSE IF Contains("\\", ref)
                  THEN FirstOf(components, partial)
                  ELSE None

\* C13 witness: no reference id or name occurs in the reference, the second
\* of two components is returned for the cut last segment
C13_Witness ==
    /\ op = "_extract_component_name" /\ pc = "resolved"
    /\ Len(arg[2]) = 2
    /\ OccurringIn(arg[1], arg[2]) = {}
    /\ ~ Contains(CutSegment(arg[1]), arg[2][1].ref_id)
    /\ ret = PyStr(arg[2][2].name)

-----------------------------------------------------------------------------
(* Properties of the Mermaid flowchart *)

\* C15: the identifier _sanitize_id returns consists of ASCII letters, ASCII
\* digits and underscores only, whatever the name, a name with letters or
\* digits beyond ASCII included.
C15_AsciiIdentifier ==
    op = "_sanitize_id" =>
        \A i \in 1..Len(ret) : Char(ret, i) \in AsciiAlnum \cup {"_"}

\* s.split('\n'), cuts the positions of the line feeds of s
SplitAt(s, cuts) ==
    LET Cut(k) == IF k = 0 THEN 0
                  ELSE IF k > Cardinality(cuts) THEN Len(s) + 1
                  ELSE CHOOSE i \in cuts : Cardinality({ j \in cuts : j <= i }) = k
    IN  [k \in 1..(Cardinality(cuts) + 1) |-> SubSeq(s, Cut(k - 1) + 1, Cut(k) - 1)]
LinesOf(s) == SplitAt(s, { i \in 1..Len(s) : Char(s, i) = "\n" })

\* The lines of a flowchart between its subgraph line, the fifth, and the
\* "end" that closes the subgraph
SubgraphLines(lines) ==
    SubSeq(lines, 6,
           (CHOOSE k \in 6..Len(lines) :
               lines[k] = "    end" /\ \A j \in 6..(k - 1) : lines[j] # "    end") - 1)

\* The identifier a node line starts with: what stands between its
\* indentation and the bracket or brace that opens its shape
NodeIdentifier(line) ==
    SubSeq(line, 9,
           (CHOOSE i \in 9..Len(line) :
               /\ Char(line, i) \in {"[", "{"}
               /\ \A j \in 9..(i - 1) : Char(line, j) \notin {"[", "{"}) - 1)

NodeIdentifiers(mermaid_code) ==
    LET Identifiers(lines) == [k \in 1..Len(lines) |-> NodeIdentifier(lines[k])]
    IN  Identifiers(SubgraphLines(LinesOf(mermaid_code)))

\* C16: the node identifiers read back from the subgraph of a flowchart are
\* the sanitized names of the listed components, one per component and in
\* order; two nodes have the same identifier only when their names sanitize
\* to the same string.
C16_NodePerListedComponent ==
    op = "generate_data_flow_diagram" =>
        /\ NodeIdentifiers(ret.mermaid_code[2])
             = [k \in 1..Len(ret.components) |-> SanitizeId(ret.components[k])]
        /\ ret.components = [k \in 1..Len(arg.components) |-> arg.components[k].name]

\* C16 witness: a flowchart of two different components of one name, each
\* with a node line of its own, both under the identifier of the name
C16_Witness ==
    /\ op = "generate_data_flow_diagram"
    /\ Len(arg.components) = 2
    /\ arg.components[1] # arg.components[2]
    /\ NodeIdentifiers(ret.mermaid_code[2]) = << "Source_1", "Source_1" >>

\* The shape of a node line: the brackets that follow its identifier
NodeShape(line) ==
    LET Opening(shape) ==
            IF SubSeq(shape, 1, 3) = "[(\"" THEN "cylinder"
            ELSE IF SubSeq(shape, 1, 3) = "[[\"" THEN "subroutine"
            ELSE IF SubSeq(shape, 1, 2) = "{\"" THEN "diamond"
            ELSE "rectangle"
    IN  Opening(SubSeq(line, 9 + Len(NodeIdentifier(line)), Len(line)))

NodeShapes(mermaid_code) ==
    LET Shapes(lines) == [k \in 1..Len(lines) |-> NodeShape(lines[k])]
    IN  Shapes(SubgraphLines(LinesOf(mermaid_code)))

\* The category recorded for a name: that of the last component of the name
CategoryOf(components, name) ==
    components[CHOOSE k \in 1..Len(components) :
                  /\ components[k].name = name
                  /\ \A j \in (k + 1)..Len(components) : components[j].name # name
              ].component_type

\* C17 as stated: a Source is drawn as a cylinder, a Destination as a
\* subroutine box, a component whose class identifier contains "Transform"
\* as a diamond, and every other component as a rectangle.
C17_ShapeByClass ==
    op = "generate_data_flow_diagram" =>
        NodeShapes(ret.mermaid_code[2])
          = [k \in 1..Len(arg.components) |->
                IF arg.components[k].component_type = "Source" THEN "cylinder"
                ELSE IF arg.components[k].component_type = "Destination" THEN "subroutine"
                ELSE IF Contains("Transform", arg.components[k].component_class) THEN "diamond"
                ELSE "rectangle"]

\* C17, amended: the shape goes by the category recorded for the component's
\* name: cylinder for Source, subroutine box for Destination, diamond for a
\* category that contains "Transform", rectangle for any other category.
C17_ShapeByCategory ==
    op = "generate_data_flow_diagram" =>
        NodeShapes(ret.mermaid_code[2])
          = [k \in 1..Len(arg.components) |->
                LET Shape(category) ==
                        IF category = "Source" THEN "cylinder"
                        ELSE IF category = "Destination" THEN "subroutine"
                        ELSE IF Contains("Transform", category) THEN "diamond"
                        ELSE "rectangle"
                IN  Shape(CategoryOf(arg.components, arg.components[k].name))]

\* C17 witness: a Transform whose class does not contain "Transform" drawn as
\* a diamond next to a component of another category drawn as a rectangle
C17_Witness ==
    /\ op = "generate_data_flow_diagram"
    /\ Len(arg.components) = 2
    /\ arg.components[1].component_type = "Transform"
    /\ ~ Contains("Transform", arg.components[1].component_class)
    /\ arg.components[2].component_type \notin {"Source", "Destination", "Transform"}
    /\ NodeShapes(ret.mermaid_code[2]) = << "diamond", "rectangle" >>

\* The lines of a flowchart that draw an edge
EdgeLinesOf(mermaid_code) ==
    SelectSeq(LinesOf(mermaid_code), LAMBDA line : Contains(" -->", line))

\* C18: the diagram of a task has one edge for every path of the task, in
\* path order, between the display names its two references resolve to, "?"
\* standing for a reference that resolves to no component.
C18_EdgePerPath ==
    op = "generate_data_flow_diagram" =>
        /\ ret.paths
             = [k \in 1..Len(arg.paths) |->
                   << NameOrUnknown(arg.paths[k].source_ref_id, arg.components),
                      NameOrUnknown(arg.paths[k].destination_ref_id, arg.components),
                      arg.paths[k].name >>]
        /\ Len(EdgeLinesOf(ret.mermaid_code[2])) = Len(arg.paths)

-----------------------------------------------------------------------------
(* Properties of the ASCII data-flow diagram *)

\* The lines of an ASCII diagram that follow its "DATA PATHS:" line
DataPathLines(ascii_diagram) ==
    LET After(lines) ==
            SubSeq(lines,
                   (CHOOSE k \in 1..Len(lines) :
                       /\ lines[k] = "DATA PATHS:"
                       /\ \A j \in (k + 1)..Len(lines) : lines[j] # "DATA PATHS:") + 1,
                   Len(lines))
    IN  After(LinesOf(ascii_diagram))

\* C19 as stated: the DATA PATHS section has one line 'source --> dest' per
\* path of the task, in path order, each side the display name the reference
\* resolves to, or "?" when it resolves to None.
C19_PathLinePerPath ==
    op = "generate_data_flow_diagram" =>
        LET Shown(name) == IF name = None THEN "?" ELSE name[2]
        IN  DataPathLines(ret.ascii_diagram[2])
              = [k \in 1..Len(arg.paths) |->
                    "    "
                    \o Shown(ExtractComponentName(arg.paths[k].source_ref_id, arg.components))
                    \o " --> "
                    \o Shown(ExtractComponentName(arg.paths[k].destination_ref_id, arg.components))]

\* C19, amended: the DATA PATHS section has one line 'source --> dest' per
\* path of the task, in path order, each side the display name the reference
\* resolves to, or "?" when it resolves to None or to an empty name.
C19_PathLinePerPathOrUnknown ==
    op = "generate_data_flow_diagram" =>
        LET Shown(name) == IF name = None \/ name[2] = "" THEN "?" ELSE name[2]
        IN  DataPathLines(ret.ascii_diagram[2])
              = [k \in 1..Len(arg.paths) |->
                    "    "
                    \o Shown(ExtractComponentName(arg.paths[k].source_ref_id, arg.components))
                    \o " --> "
                    \o Shown(ExtractComponentName(arg.paths[k].destination_ref_id, arg.components))]

\* C19 witness: a task of two paths, the first with both ends resolved, the
\* second with a destination that resolves to no component
C19_Witness ==
    /\ op = "generate_data_flow_diagram"
    /\ Len(arg.paths) = 2
    /\ ExtractComponentName(arg.paths[2].destination_ref_id, arg.components) = None
    /\ DataPathLines(ret.ascii_diagram[2]) = << "    Source 1 --> Dst-1.a", "    Source 1 --> ?" >>

\* The lines an ASCII diagram shows under its k-th transform: those between
\* the k-th line that opens with a symbol and the next such line or, for the
\* last transform, the empty line that ends the section
UnderTransform(lines, k) ==
    LET Under(headers) ==
            LET Start(h) ==
                    SubSeq(lines, h + 1,
                           (CHOOSE e \in (h + 1)..Len(lines) :
                               /\ e \in headers \/ lines[e] = ""
                               /\ \A j \in (h + 1)..(e - 1) : j \notin headers /\ lines[j] # "") - 1)
            IN  Start(CHOOSE h \in headers : Cardinality({ j \in headers : j <= h }) = k)
    IN  Under({ i \in 1..Len(lines) : StartsWith(lines[i], "    {") })

\* The output columns of a transform that carry an expression
ExpressionColumns(transform) ==
    SelectSeq(transform.output_columns, LAMBDA col : Truthy(col.expression))

\* C20: under each transform the ASCII diagram shows the first three
\* derived-column expressions of the transform, all of them when fewer than
\* three output columns carry one, whatever the number of output columns
\* without an expression before them, and one line for every conditional
\* output of the transform.
C20_FirstThreeExpressions ==
    op = "generate_data_flow_diagram" =>
        \A k \in 1..Len(OfType(arg.components, "Transform")) :
            LET Shown(transform, under) ==
                    /\ SelectSeq(under, LAMBDA line : StartsWith(line, "          -> "))
                         = [j \in 1..(IF Len(ExpressionColumns(transform)) < 3
                                      THEN Len(ExpressionColumns(transform)) ELSE 3) |->
                               "          -> " \o ExpressionColumns(transform)[j].name \o ": "
                               \o Take(ExpressionColumns(transform)[j].expression[2], 40) \o "..."]
                    /\ Len(SelectSeq(under, LAMBDA line : StartsWith(line, "          |-> ")))
                         = Len(transform.conditional_outputs)
            IN  Shown(OfType(arg.components, "Transform")[k],
                      UnderTransform(LinesOf(ret.ascii_diagram[2]), k))

-----------------------------------------------------------------------------
(* Properties of the ASCII control-flow diagram *)

\* Whether a line is a border of a box: indented, dashes between two '+'
IsBorder(line) ==
    /\ Len(line) > 5
    /\ StartsWith(line, "    +")
    /\ \A i \in 6..(Len(line) - 1) : Char(line, i) = "-"
    /\ Char(line, Len(line)) = "+"

\* The k-th smallest number of a set of numbers
Kth(S, k) == CHOOSE i \in S : Cardinality({ j \in S : j <= i }) = k

Borders(lines) == { i \in 1..Len(lines) : IsBorder(lines[i]) }

\* The rows of the k-th box, from its upper border to its lower border
BoxRows(lines, k) ==
    SubSeq(lines, Kth(Borders(lines), 2 * k - 1), Kth(Borders(lines), 2 * k))

\* The lines below the k-th box of n, up to the next box or to the end
BelowBox(lines, k, n) ==
    SubSeq(lines, Kth(Borders(lines), 2 * k) + 1,
           IF k < n THEN Kth(Borders(lines), 2 * k + 1) - 1 ELSE Len(lines))

\* C21: the ASCII control-flow diagram has one box per stage, in stage-list
\* order, every row of every box as wide as the longest stage name and four
\* more (between the indentation and the two sides); one arrow below every
\* box but the last; below box i a bracketed line if and only if stage i+1
\* has a condition, showing the condition with '@[User::' and ']' removed.
C21_BoxPerStage ==
    op = "generate_control_flow_diagram" =>
        LET Drawn(stage_list, lines) ==
                /\ Cardinality(Borders(lines)) = 2 * Len(stage_list)
                /\ \A k \in 1..Len(stage_list) :
                    /\ Len(BoxRows(lines, k)) = 4
                    /\ \A r \in 1..4 :
                        Len(BoxRows(lines, k)[r]) = 4 + 1 + (MaxWidth(stage_list) + 4) + 1
                    /\ Strip(SubSeq(BoxRows(lines, k)[2], 6, Len(BoxRows(lines, k)[2]) - 1))
                         = stage_list[k].name
                    /\ Len(SelectSeq(BelowBox(lines, k, Len(stage_list)),
                                     LAMBDA line : Strip(line) = "V"))
                         = (IF k < Len(stage_list) THEN 1 ELSE 0)
                    /\ SelectSeq(BelowBox(lines, k, Len(stage_list)),
                                 LAMBDA line : StartsWith(Strip(line), "["))
                         = (IF k < Len(stage_list) /\ Truthy(stage_list[k + 1].condition)
                            THEN << "        ["
                                    \o Replace(Replace(stage_list[k + 1].condition[2],
                                                       "@[User::", ""), "]", "")
                                    \o "]" >>
                            ELSE <<>>)
        IN  Drawn(package.control_flow_stages, LinesOf(ret.ascii_diagram[2]))

\* The same with the width of the borders and of the name row only, and the
\* condition as the diagram shows it
C21_BoxBordersPerStage ==
    op = "generate_control_flow_diagram" =>
        LET Drawn(stage_list, lines) ==
                /\ Cardinality(Borders(lines)) = 2 * Len(stage_list)
                /\ \A k \in 1..Len(stage_list) :
                    /\ Len(BoxRows(lines, k)) = 4
                    /\ \A r \in {1, 2, 4} :
                        Len(BoxRows(lines, k)[r]) = 4 + 1 + (MaxWidth(stage_list) + 4) + 1
                    /\ Strip(SubSeq(BoxRows(lines, k)[2], 6, Len(BoxRows(lines, k)[2]) - 1))
                         = stage_list[k].name
                    /\ Len(SelectSeq(BelowBox(lines, k, Len(stage_list)),
                                     LAMBDA line : Strip(line) = "V"))
                         = (IF k < Len(stage_list) THEN 1 ELSE 0)
                    /\ SelectSeq(BelowBox(lines, k, Len(stage_list)),
                                 LAMBDA line : StartsWith(Strip(line), "["))
                         = (IF k < Len(stage_list) /\ Truthy(stage_list[k + 1].condition)
                            THEN << "        ["
                                    \o ConditionText(stage_list[k + 1].condition[2])
                                    \o "]" >>
                            ELSE <<>>)
        IN  Drawn(package.control_flow_stages, LinesOf(ret.ascii_diagram[2]))

-----------------------------------------------------------------------------
(* Properties of the execution-order listing *)

StepIndexes(lines) == { i \in 1..Len(lines) : StartsWith(lines[i], "Step ") }

\* The lines of the k-th of n steps, from its "Step" line to the next one or
\* to the end
StepBlock(lines, k, n) ==
    SubSeq(lines, Kth(StepIndexes(lines), k),
           IF k < n THEN Kth(StepIndexes(lines), k + 1) - 1 ELSE Len(lines))

ConditionLines(block) ==
    SelectSeq(block, LAMBDA line : StartsWith(line, "         Condition: "))

-----------------------------------------------------------------------------
(* Properties of the routing-logic listing *)

\* Whether a line opens the part of a task, of a routing component, of a
\* Lookup or of a Multicast
IsRoutingHeader(line) ==
    \/ StartsWith(line, "Data Flow: ")
    \/ StartsWith(line, "  Routing Component: ")
    \/ StartsWith(line, "  Lookup: ")
    \/ StartsWith(line, "  Multicast: ")

\* The lines from line h up to the next line that satisfies Opens, or to the end
LinesFrom(lines, h, Opens(_)) ==
    SubSeq(lines, h,
           (CHOOSE e \in (h + 1)..(Len(lines) + 1) :
               /\ e = Len(lines) + 1 \/ Opens(lines[e])
               /\ \A j \in (h + 1)..(e - 1) : ~Opens(lines[j])) - 1)

\* The part of the k-th component whose header opens with prefix
RoutingPart(lines, prefix, k) ==
    LinesFrom(lines, Kth({ i \in 1..Len(lines) : StartsWith(lines[i], prefix) }, k),
              IsRoutingHeader)

IsRouteLine(line) == StartsWith(line, "    Route ")

\* The lines of the i-th route of the part of a routing component
RoutePart(part, i) ==
    LinesFrom(part, Kth({ j \in 1..Len(part) : IsRouteLine(part[j]) }, i), IsRouteLine)

\* The components of a list of tasks, task after task, each with its task
RECURSIVE ComponentsOf(_)
ComponentsOf(tasks) ==
    IF tasks = <<>> THEN <<>>
    ELSE [k \in 1..Len(Head(tasks).components) |->
             [comp |-> Head(tasks).components[k], dft |-> Head(tasks)]]
         \o ComponentsOf(Tail(tasks))

\* Those that satisfy Has
ComponentsWith(tasks, Has(_)) ==
    SelectSeq(ComponentsOf(tasks), LAMBDA c : Has(c.comp))

HasConditionalOutputs(comp) == comp.conditional_outputs # <<>>

PrefixedLines(part, prefix) == SelectSeq(part, LAMBDA line : StartsWith(line, prefix))

\* C23: the routing listing has one part for every component with conditional
\* outputs and in it one 'Route i' line for every conditional output, in output
\* order; the Condition line of a route flagged default reads 'DEFAULT (all
\* unmatched rows)' whatever expression the route carries; a route not flagged
\* shows its friendly expression when it has one, else its raw expression.
C23_RoutePerConditionalOutput ==
    op = "generate_routing_logic_diagram" =>
        LET Shown(conds, part) ==
                /\ PrefixedLines(part, "    Route ")
                     = [i \in 1..Len(conds) |->
                           "    Route " \o ToString(i) \o ": " \o conds[i].name]
                /\ \A i \in 1..Len(conds) :
                    PrefixedLines(RoutePart(part, i), "      Condition: ")
                      = (IF Truthy(conds[i].is_default)
                         THEN << "      Condition: DEFAULT (all unmatched rows)" >>
                         ELSE IF Truthy(conds[i].friendly_expression)
                         THEN << "      Condition: " \o conds[i].friendly_expression[2] >>
                         ELSE IF Truthy(conds[i].expression)
                         THEN << "      Condition: " \o conds[i].expression[2] >>
                         ELSE <<>>)
            Listed(splits, lines) ==
                /\ Len(PrefixedLines(lines, "  Routing Component: ")) = Len(splits)
                /\ \A k \in 1..Len(splits) :
                    Shown(splits[k].comp.conditional_outputs,
                          RoutingPart(lines, "  Routing Component: ", k))
        IN  Listed(ComponentsWith(package.data_flow_tasks, HasConditionalOutputs),
                   LinesOf(ret))

\* A listing with a default route that carries the expression '1 == 1' and a
\* route whose friendly expression is empty
C23_Witness ==
    /\ op = "generate_routing_logic_diagram"
    /\ \E k \in 1..Len(package.data_flow_tasks) :
        \E c \in Range(package.data_flow_tasks[k].components) :
            /\ Len(c.conditional_outputs) = 2
            /\ c.conditional_outputs[1].friendly_expression = PyStr("")
            /\ c.conditional_outputs[2].is_default = PyBool(TRUE)
            /\ c.conditional_outputs[2].expression = PyStr("1 == 1")
    /\ Contains("\n    Route 1: HighRisk\n      Condition: [Risk] > 5\n", ret)
    /\ Contains("\n    Route 2: Default\n      Condition: DEFAULT (all unmatched rows)\n",
                ret)
    /\ ~Contains("1 == 1", ret)

\* The component a reference into an input or an output belongs to: the one
\* whose reference id the reference continues with a dot
OwnerOf(ref, components) ==
    CHOOSE c \in Range(components) : StartsWith(ref, c.ref_id \o ".")

\* The edges that leave the output named name of the component comp
EdgesOf(comp, name, dft) ==
    SelectSeq(dft.paths,
              LAMBDA path : path.source_ref_id = comp.ref_id \o ".Outputs[" \o name \o "]")

\* A component of scenario B: a ConditionalSplit with two routes, one with an
\* expression and one flagged default, each with one edge of its name into a
\* Destination of the task, the two destinations distinct
IsTwoWaySplit(comp, dft) ==
    /\ Contains("ConditionalSplit", comp.component_class)
    /\ Len(comp.conditional_outputs) = 2
    /\ \E i, j \in 1..2 :
        /\ Truthy(comp.conditional_outputs[i].is_default)
        /\ ~Truthy(comp.conditional_outputs[j].is_default)
        /\ Truthy(comp.conditional_outputs[j].expression)
    /\ \A i \in 1..2 :
        LET Connected(edges) ==
                /\ Len(edges) = 1
                /\ edges[1].name = comp.conditional_outputs[i].name
                /\ \E c \in Range(dft.components) :
                    /\ StartsWith(edges[1].destination_ref_id, c.ref_id \o ".")
                    /\ c.component_type = "Destination"
        IN  Connected(EdgesOf(comp, comp.conditional_outputs[i].name, dft))
    /\ EdgesOf(comp, comp.conditional_outputs[1].name, dft)[1].destination_ref_id
         # EdgesOf(comp, comp.conditional_outputs[2].name, dft)[1].destination_ref_id

\* C24: in the routing listing the part of a two-way ConditionalSplit shows
\* exactly two routes, the default one labelled DEFAULT, and under each route
\* exactly one Destination line, which names the destination component the
\* edge of that route ends in.
C24_DestinationPerRoute ==
    op = "generate_routing_logic_diagram" =>
        LET Shown(comp, dft, part) ==
                /\ Len(PrefixedLines(part, "    Route ")) = 2
                /\ \A i \in 1..2 :
                    /\ Truthy(comp.conditional_outputs[i].is_default)
                        => PrefixedLines(RoutePart(part, i), "      Condition: ")
                             = << "      Condition: DEFAULT (all unmatched rows)" >>
                    /\ PrefixedLines(RoutePart(part, i), "      Destination: ")
                         = << "      Destination: "
                              \o OwnerOf(EdgesOf(comp, comp.conditional_outputs[i].name,
                                                 dft)[1].destination_ref_id,
                                         dft.components).name >>
            Listed(splits, lines) ==
                \A k \in 1..Len(splits) :
                    IsTwoWaySplit(splits[k].comp, splits[k].dft)
                        => Shown(splits[k].comp, splits[k].dft,
                                 RoutingPart(lines, "  Routing Component: ", k))
        IN  Listed(ComponentsWith(package.data_flow_tasks, HasConditionalOutputs),
                   LinesOf(ret))

\* The listing of a two-way split whose destinations have unrelated names
C24_UnrelatedNames ==
    /\ op = "generate_routing_logic_diagram"
    /\ \E c \in Range(ComponentsOf(package.data_flow_tasks)) :
        /\ IsTwoWaySplit(c.comp, c.dft)
        /\ c.dft.components[3].name = "High"
    /\ Contains("\n      Destination: High\n", ret)
    /\ Contains("\n      Destination: Low\n", ret)

HasLookupClass(comp) == Contains("Lookup", comp.component_class)

\* The edges that leave the component comp
OutgoingEdges(comp, dft) ==
    SelectSeq(dft.paths, LAMBDA path : StartsWith(path.source_ref_id, comp.ref_id \o "."))

IsNoMatchEdge(path) == EndsWith(path.name, "No Match Output")
IsMatchEdge(path) == EndsWith(path.name, "Match Output") /\ ~IsNoMatchEdge(path)

\* A Lookup of scenario E: two outgoing edges, a match edge and a no-match
\* edge, each into a component of the task
IsTwoWayLookup(comp, dft) ==
    /\ HasLookupClass(comp)
    /\ Len(OutgoingEdges(comp, dft)) = 2
    /\ Len(SelectSeq(OutgoingEdges(comp, dft), IsMatchEdge)) = 1
    /\ Len(SelectSeq(OutgoingEdges(comp, dft), IsNoMatchEdge)) = 1
    /\ \A k \in 1..2 :
        ExtractComponentName(OutgoingEdges(comp, dft)[k].destination_ref_id,
                             dft.components) # None

\* C25: in the routing listing the part of a two-way Lookup has exactly one
\* '-> Match goes to:' line, with the destination of the match edge, and
\* exactly one '-> No Match goes to:' line, with the destination of the
\* no-match edge.
C25_MatchAndNoMatchLine ==
    op = "generate_routing_logic_diagram" =>
        LET Shown(comp, dft, part) ==
                /\ PrefixedLines(part, "      -> Match goes to: ")
                     = << "      -> Match goes to: "
                          \o OwnerOf(SelectSeq(OutgoingEdges(comp, dft),
                                               IsMatchEdge)[1].destination_ref_id,
                                     dft.components).name >>
                /\ PrefixedLines(part, "      -> No Match goes to: ")
                     = << "      -> No Match goes to: "
                          \o OwnerOf(SelectSeq(OutgoingEdges(comp, dft),
                                               IsNoMatchEdge)[1].destination_ref_id,
                                     dft.components).name >>
            Listed(lookups, lines) ==
                \A k \in 1..Len(lookups) :
                    IsTwoWayLookup(lookups[k].comp, lookups[k].dft)
                        => Shown(lookups[k].comp, lookups[k].dft,
                                 RoutingPart(lines, "  Lookup: ", k))
        IN  Listed(ComponentsWith(package.data_flow_tasks, HasLookupClass), LinesOf(ret))

\* What the listing of a Lookup shows: every outgoing edge whose name contains
\* 'Match' and whose destination resolves is a 'Match goes to' line, the
\* no-match edge as well, and there is no 'No Match goes to' line
C25_NoMatchListedAsMatch ==
    op = "generate_routing_logic_diagram" =>
        LET Listed(lookups, lines) ==
                \A k \in 1..Len(lookups) :
                    IsTwoWayLookup(lookups[k].comp, lookups[k].dft)
                        => /\ Len(PrefixedLines(RoutingPart(lines, "  Lookup: ", k),
                                                "      -> Match goes to: ")) = 2
                           /\ PrefixedLines(RoutingPart(lines, "  Lookup: ", k),
                                            "      -> No Match goes to: ") = <<>>
        IN  Listed(ComponentsWith(package.data_flow_tasks, HasLookupClass), LinesOf(ret))

HasMulticastClass(comp) == Contains("Multicast", comp.component_class)

\* The paths whose source reference names the component: contains its name
NamingEdges(comp, dft) ==
    SelectSeq(dft.paths, LAMBDA path : Contains(comp.name, path.source_ref_id))

\* C26: in the routing listing the part of a Multicast has one '->' line for
\* every path whose source reference names the component, none left out.
C26_LinePerOutgoingEdge ==
    op = "generate_routing_logic_diagram" =>
        LET Listed(multicasts, lines) ==
                \A k \in 1..Len(multicasts) :
                    Len(PrefixedLines(RoutingPart(lines, "  Multicast: ", k), "      -> "))
                      = Len(NamingEdges(multicasts[k].comp, multicasts[k].dft))
        IN  Listed(ComponentsWith(package.data_flow_tasks, HasMulticastClass), LinesOf(ret))

\* What the listing of a Multicast shows: the destinations of these paths
\* that resolve to a component of the task, in path order
C26_LinePerResolvedEdge ==
    op = "generate_routing_logic_diagram" =>
        LET Resolving(edges, dft) ==
                SelectSeq(edges, LAMBDA path :
                    Truthy(ExtractComponentName(path.destination_ref_id, dft.components)))
            Lines(edges, dft) ==
                [j \in 1..Len(edges) |->
                    "      -> " \o ExtractComponentName(edges[j].destination_ref_id,
                                                        dft.components)[2]]
            Listed(multicasts, lines) ==
                \A k \in 1..Len(multicasts) :
                    PrefixedLines(RoutingPart(lines, "  Multicast: ", k), "      -> ")
                      = Lines(Resolving(NamingEdges(multicasts[k].comp, multicasts[k].dft),
                                        multicasts[k].dft),
                              multicasts[k].dft)
        IN  Listed(ComponentsWith(package.data_flow_tasks, HasMulticastClass), LinesOf(ret))

\* The listing of a Multicast with three outgoing edges, one of them into a
\* component the task does not have
C26_DanglingEdge ==
    /\ op = "generate_routing_logic_diagram"
    /\ \E c \in Range(ComponentsOf(package.data_flow_tasks)) :
        /\ HasMulticastClass(c.comp)
        /\ Len(NamingEdges(c.comp, c.dft)) = 3
    /\ Contains("\n      -> Good\n      -> Bad\n", ret)

-----------------------------------------------------------------------------
(* Properties of repeated DiagramGenerator calls *)

\* The number of the task a generate_data_flow_diagram call drew, 0 for the
\* operations that take no task
DrawnTasks ==
    IF op = "generate_data_flow_diagram"
    THEN { k \in 1..Len(package.data_flow_tasks) : package.data_flow_tasks[k] = arg }
    ELSE { 0 }

-----------------------------------------------------------------------------
(* Properties of connection-string parsing *)

\* s.split(';')
RECURSIVE SplitSemicolon(_)
SplitSemicolon(s) ==
    LET cuts == { i \in 1..Len(s) : Char(s, i) = ";" }
        Cut(i) == << SubSeq(s, 1, i - 1) >> \o SplitSemicolon(SubSeq(s, i + 1, Len(s)))
    IN  IF cuts = {} THEN << s >>
        ELSE Cut(CHOOSE i \in cuts : \A j \in cuts : i <= j)

\* The key=value segments of a connection string as [key, value] records:
\* a segment is cut at its first '='
KeyValues(s) ==
    LET Eq(seg) == { i \in 1..Len(seg) : Char(seg, i) = "=" }
        First(seg) == CHOOSE i \in Eq(seg) : \A j \in Eq(seg) : i <= j
        Pair(seg) == [key |-> SubSeq(seg, 1, First(seg) - 1),
                      value |-> SubSeq(seg, First(seg) + 1, Len(seg))]
        segs == SelectSeq(SplitSemicolon(s), LAMBDA seg : Eq(seg) # {})
    IN  [k \in 1..Len(segs) |-> Pair(segs[k])]

\* Whether got is what the segments pairs give for the keys names: None when
\* no segment has one of the keys (in any letter case), else the value of a
\* segment with one of the keys, and a value when a segment has one of the
\* keys as written with a value that is not empty
IsValueOfKey(got, names, pairs) ==
    LET keyed == SelectSeq(pairs, LAMBDA p :
                     \E n \in 1..Len(names) : Lower(p.key) = Lower(names[n]))
        written == SelectSeq(pairs, LAMBDA p :
                       /\ \E n \in 1..Len(names) : p.key = names[n]
                       /\ p.value # "")
    IN  /\ got # None => \E k \in 1..Len(keyed) : got = PyStr(keyed[k].value)
        /\ written # <<>> => got # None

\* C28: _parse_connection_string returns as server, database and provider the
\* values of the 'Data Source' (or 'Server'), 'Initial Catalog' (or
\* 'Database') and 'Provider' keys of the string's key=value segments, None
\* for a key the string does not have, and three None for no string or an
\* empty one.
C28_ValuesOfKeys ==
    op = "_parse_connection_string" =>
        IF ~Truthy(arg) THEN ret = << None, None, None >>
        ELSE /\ IsValueOfKey(ret[1], ServerKeys, KeyValues(arg[2]))
             /\ IsValueOfKey(ret[2], DatabaseKeys, KeyValues(arg[2]))
             /\ IsValueOfKey(ret[3], ProviderKeys, KeyValues(arg[2]))

\* What holds of every string: a field is None or the text between an '=' that
\* follows one of its key names, wherever in the string the name stands, and
\* the next ';'
C28_TextAfterKeyName ==
    op = "_parse_connection_string" /\ Truthy(arg) =>
        LET After(got, names) ==
                got # None =>
                    \E n \in 1..Len(names), i \in 1..Len(arg[2]) :
                        /\ KeyAt(arg[2], names[n], i)
                        /\ got = PyStr(UpToSemicolon(arg[2], i + Len(names[n]) + 1))
        IN  /\ After(ret[1], ServerKeys)
            /\ After(ret[2], DatabaseKeys)
            /\ After(ret[3], ProviderKeys)

\* Scenario C and the two inputs without a string
C28_ScenarioC ==
    op = "_parse_connection_string" =>
        /\ arg = PyStr("Data Source=SRV01;Initial Catalog=Sales;Provider=SQLOLEDB")
             => ret = << PyStr("SRV01"), PyStr("Sales"), PyStr("SQLOLEDB") >>
        /\ arg \in { None, PyStr("") } => ret = << None, None, None >>

\* The provider read off the key of another segment
C28_ProviderOfDataProvider ==
    /\ op = "_parse_connection_string"
    /\ arg = PyStr("Data Provider=MSDASQL;Provider=SQLOLEDB")
    /\ ret[3] = PyStr("MSDASQL")

-----------------------------------------------------------------------------
(* Properties of the component and path lists *)

\* The elements with the tag given below the k-th pipeline executable of the
\* document, in document order
PipelineElems(k, tag) ==
    SelectSeq(Iter(SelectSeq(Iter(root), IsPipeline)[k]), LAMBDA e : e.tag = tag)

\* Whether the pipeline element of the k-th pipeline executable stands in an
\* ObjectData element
IsUnderObjectData(k) ==
    \E od \in Range(Iter(SelectSeq(Iter(root), IsPipeline)[k])) :
        /\ Contains("ObjectData", od.tag)
        /\ \E p \in Range(Iter(od)) : p.tag = "pipeline"

\* C29: after parse() the task of every pipeline executable lists each
\* component element and each path element of the executable's pipeline once,
\* in document order, also when the pipeline stands in an ObjectData element.
C29_ElementsListedOnce ==
    (op = "parse" /\ pc = "parsed") =>
        \A k \in 1..Len(package.data_flow_tasks) :
            LET Listed(dft, comps, paths) ==
                    /\ dft.components
                         = [j \in 1..Len(comps) |-> ParseDataFlowComponent(comps[j]).val]
                    /\ dft.paths = [j \in 1..Len(paths) |-> ParseDataFlowPath(paths[j])]
            IN  Listed(package.data_flow_tasks[k], PipelineElems(k, "component"),
                       PipelineElems(k, "path"))

\* What the lists hold: the elements once when the pipeline is a child of the
\* executable, twice over when it stands in an ObjectData element
C29_ListedTwiceUnderObjectData ==
    (op = "parse" /\ pc = "parsed") =>
        \A k \in 1..Len(package.data_flow_tasks) :
            LET Times(elems) == IF IsUnderObjectData(k) THEN elems \o elems ELSE elems
                Listed(dft, comps, paths) ==
                    /\ dft.components
                         = [j \in 1..Len(comps) |-> ParseDataFlowComponent(comps[j]).val]
                    /\ dft.paths = [j \in 1..Len(paths) |-> ParseDataFlowPath(paths[j])]
            IN  Listed(package.data_flow_tasks[k], Times(PipelineElems(k, "component")),
                       Times(PipelineElems(k, "path")))

\* A parsed document with a pipeline in ObjectData and one that is a child of
\* its executable, both with components
C29_BothPlacements ==
    /\ op = "parse"
    /\ pc = "parsed"
    /\ \E k \in 1..Len(package.data_flow_tasks) :
        IsUnderObjectData(k) /\ package.data_flow_tasks[k].components # <<>>
    /\ \E k \in 1..Len(package.data_flow_tasks) :
        ~IsUnderObjectData(k) /\ package.data_flow_tasks[k].components # <<>>

-----------------------------------------------------------------------------
(* Properties of repeated parse() calls *)

\* C30: parse() called again on the same DtsxParser over the same document
\* returns a package equal in every field to the package of the call before.
C30_ParseIsRepeatable ==
    [][(pc = "parsed" /\ pc' = "parsed" /\ op' = "parse" /\ root' = root)
          => ret' = package]_vars

\* What repeats: every field but the database objects and the alerts, which
\* are those the package of the call before gives
C30_RepeatsButAnnotations ==
    [][(pc = "parsed" /\ pc' = "parsed" /\ op' = "parse" /\ root' = root)
          => /\ [ret' EXCEPT !.database_objects = <<>>, !.alerts = <<>>]
                  = [package EXCEPT !.database_objects = <<>>, !.alerts = <<>>]
             /\ ret'.database_objects = ExtractDatabaseObjects(package)
             /\ ret'.alerts = ExtractAlerts(package)]_vars

\* A second parse() has returned database objects and alerts although the
\* first returned none
C30_SecondParseDiffers ==
    /\ pc = "parsed"
    /\ op = "parse"
    /\ package.database_objects # <<>>
    /\ package.alerts # <<>>

====
